---- MODULE Spec2Model ----
(***************************************************************************)
(* Model of the text moderation pipeline of ttsEdge_API:                   *)
(*   - FilterManager (allow/deny classifier with expiring deny entries),   *)
(*   - its fire-and-forget persistence and asynchronous load,              *)
(*   - the hourly expiry sweep registered by the constructor,              *)
(*   - the /webhook handler with the template substitution, the emote      *)
(*     stripping and the repetition normalizer (SpamCleaner) it calls.     *)
(*   - the message queue (MessageQueue) and its backup file.               *)
(* Texts are sequences of one-character strings.  Dates are integers       *)
(* (seconds); the null Date is NullDate.                                   *)
(***************************************************************************)
EXTENDS Integers, Sequences, FiniteSets, TLC

(***************************************************************************)
(* Bounds of the model.                                                    *)
(***************************************************************************)
MaxTime == 3
MaxFilters == 1

NullDate == -1

(***************************************************************************)
(* String primitives (String.prototype.trim / toLowerCase / includes).     *)
(***************************************************************************)
IsSpace(c) == c \in {" ", "\t", "\n"}

LowerChar(c) ==
  CASE c = "A" -> "a" [] c = "B" -> "b" [] c = "C" -> "c" [] c = "D" -> "d"
    [] c = "E" -> "e" [] c = "F" -> "f" [] c = "G" -> "g" [] c = "H" -> "h"
    [] c = "I" -> "i" [] c = "J" -> "j" [] c = "K" -> "k" [] c = "L" -> "l"
    [] c = "M" -> "m" [] c = "N" -> "n" [] c = "O" -> "o" [] c = "P" -> "p"
    [] c = "Q" -> "q" [] c = "R" -> "r" [] c = "S" -> "s" [] c = "T" -> "t"
    [] c = "U" -> "u" [] c = "V" -> "v" [] c = "W" -> "w" [] c = "X" -> "x"
    [] c = "Y" -> "y" [] c = "Z" -> "z" [] OTHER -> c

toLowerCase(s) == [i \in 1..Len(s) |-> LowerChar(s[i])]

trim(s) ==
  LET keep == {i \in 1..Len(s) : ~IsSpace(s[i])}
  IN IF keep = {} THEN <<>>
     ELSE LET lo == CHOOSE i \in keep : \A j \in keep : i <= j
              hi == CHOOSE i \in keep : \A j \in keep : j <= i
          IN SubSeq(s, lo, hi)

includes(s, sub) ==
  \E i \in 0..(Len(s) - Len(sub)) : SubSeq(s, i + 1, i + Len(sub)) = sub

(***************************************************************************)
(* Sequence helpers (Array.prototype.findIndex / map / flat).              *)
(***************************************************************************)
\* list.map(item => item.trim())
trimAll(l) == [i \in 1..Len(l) |-> trim(l[i])]

RECURSIVE Flatten(_)
Flatten(ss) == IF ss = <<>> THEN <<>> ELSE Head(ss) \o Flatten(Tail(ss))

\* index of the first filter whose id is id; 0 when there is none
findIndex(fs, id) ==
  IF \E i \in 1..Len(fs) : fs[i].id = id
  THEN CHOOSE i \in 1..Len(fs) : fs[i].id = id /\ \A j \in 1..(i - 1) : fs[j].id # id
  ELSE 0

(***************************************************************************)
(* Deny-list entries: a bare string, or an {item, expiresAt} object.       *)
(***************************************************************************)
Perm(s) == [item |-> s, obj |-> FALSE, expiresAt |-> NullDate]
Temp(s, e) == [item |-> s, obj |-> TRUE, expiresAt |-> e]

\* a list of strings as bare-string deny entries, trimmed
permAll(l) == [i \in 1..Len(l) |-> Perm(trim(l[i]))]

normalizeItem(e) == trim(e.item)

isItemExpired(e, t) == e.expiresAt # NullDate /\ t > e.expiresAt

newFilter(bl, wl, t) ==
  [id |-> "default",
   blackList |-> permAll(bl),
   whiteList |-> trimAll(wl),
   updatedAt |-> t, isActive |-> TRUE]

(***************************************************************************)
(* FilterManager: the operations as functions of the filter table fs and   *)
(* the current time t.                                                     *)
(***************************************************************************)
Opt(v) == [def |-> TRUE, val |-> v]
Undefined == [def |-> FALSE, val |-> <<>>]
UndefinedBool == [def |-> FALSE, val |-> FALSE]

NullTtl == -1
\* `expiresInSeconds ? ... : null`: null and 0 are falsy
Truthy(ttl) == ttl # NullTtl /\ ttl # 0

sweepList(bl, t) == SelectSeq(bl, LAMBDA e : ~(e.obj /\ isItemExpired(e, t)))

\* faulty variant: the filter sets that are not active are left as they are
cleanExpiredTblActive(fs, t) ==
  [i \in 1..Len(fs) |->
     LET kept == sweepList(fs[i].blackList, t)
     IN IF fs[i].isActive /\ Len(kept) < Len(fs[i].blackList)
        THEN [fs[i] EXCEPT !.blackList = kept, !.updatedAt = t]
        ELSE fs[i]]

cleanExpiredTbl(fs, t) ==
  [i \in 1..Len(fs) |->
     LET kept == sweepList(fs[i].blackList, t)
     IN IF Len(kept) < Len(fs[i].blackList)
        THEN [fs[i] EXCEPT !.blackList = kept, !.updatedAt = t]
        ELSE fs[i]]

cleanExpiredChanged(fs, t) ==
  \E i \in 1..Len(fs) : \E k \in 1..Len(fs[i].blackList) :
     fs[i].blackList[k].obj /\ isItemExpired(fs[i].blackList[k], t)

createFilterTbl(fs, bl, wl, t) == Append(fs, newFilter(bl, wl, t))

updateFilterTbl(fs, id, bl, wl, t) ==
  LET i == findIndex(fs, id)
  IN IF i = 0 THEN fs
     ELSE [fs EXCEPT ![i] =
             [@ EXCEPT !.blackList = IF bl.def THEN permAll(bl.val) ELSE @,
                       !.whiteList = IF wl.def THEN trimAll(wl.val) ELSE @,
                       !.updatedAt = t]]

\* [...list].filter((value, index, self) => index === self.findIndex(t => norm(t) === norm(value)))
dedupe(all) ==
  LET first(i) == \A j \in 1..(i - 1) : normalizeItem(all[j]) # normalizeItem(all[i])
      idx == {i \in 1..Len(all) : first(i)}
      RECURSIVE pick(_)
      pick(i) == IF i > Len(all) THEN <<>>
                 ELSE (IF i \in idx THEN <<all[i]>> ELSE <<>>) \o pick(i + 1)
  IN pick(1)

newBlackListItems(items, ttl, t) ==
  [i \in 1..Len(items) |->
     IF Truthy(ttl) THEN Temp(trim(items[i]), t + ttl) ELSE Perm(trim(items[i]))]

addToBlackListTbl(fs, id, items, ttl, t) ==
  LET i == findIndex(fs, id)
  IN IF i = 0 THEN fs
     ELSE [fs EXCEPT ![i] =
             [@ EXCEPT !.blackList = dedupe(@ \o newBlackListItems(items, ttl, t)),
                       !.updatedAt = t]]

addToWhiteListTbl(fs, id, items, t) ==
  LET i == findIndex(fs, id)
  IN IF i = 0 THEN fs
     ELSE LET old == fs[i].whiteList
              newItems == SelectSeq(trimAll(items),
                                    LAMBDA s : \A k \in 1..Len(old) : old[k] # s)
          IN [fs EXCEPT ![i] = [@ EXCEPT !.whiteList = @ \o newItems, !.updatedAt = t]]

removeFromBlackListTbl(fs, id, items, t) ==
  LET i == findIndex(fs, id)
  IN IF i = 0 THEN fs
     ELSE [fs EXCEPT ![i] =
             [@ EXCEPT !.blackList =
                         SelectSeq(@, LAMBDA e : ~\E k \in 1..Len(items) :
                                                     normalizeItem(e) = trim(items[k])),
                       !.updatedAt = t]]

removeFromWhiteListTbl(fs, id, items, t) ==
  LET i == findIndex(fs, id)
  IN IF i = 0 THEN fs
     ELSE [fs EXCEPT ![i] =
             [@ EXCEPT !.whiteList =
                         SelectSeq(@, LAMBDA w : ~\E k \in 1..Len(items) : w = trim(items[k])),
                       !.updatedAt = t]]

\* faulty variant: the argument is ignored
toggleFilterTblInvert(fs, id, isActive, t) ==
  LET i == findIndex(fs, id)
  IN IF i = 0 THEN fs
     ELSE [fs EXCEPT ![i] = [@ EXCEPT !.isActive = ~@, !.updatedAt = t]]

toggleFilterTbl(fs, id, isActive, t) ==
  LET i == findIndex(fs, id)
  IN IF i = 0 THEN fs
     ELSE [fs EXCEPT ![i] =
             [@ EXCEPT !.isActive = IF isActive.def THEN isActive.val ELSE ~@,
                       !.updatedAt = t]]

deleteFilterTbl(fs, id) ==
  LET i == findIndex(fs, id)
  IN IF i = 0 THEN fs
     ELSE SubSeq(fs, 1, i - 1) \o SubSeq(fs, i + 1, Len(fs))

(***************************************************************************)
(* checkString.                                                            *)
(***************************************************************************)
DefaultOptions == [caseSensitive |-> FALSE, exactMatch |-> FALSE, partialMatch |-> TRUE]

\* faulty variant: exactMatch is ignored
matchesItemPartialOnly(processedText, processedItem, o) ==
  o.partialMatch /\ includes(processedText, processedItem)

matchesItem(processedText, processedItem, o) ==
  IF o.exactMatch THEN processedText = processedItem
  ELSE IF o.partialMatch THEN includes(processedText, processedItem)
  ELSE FALSE

\* faulty variant: expired entries are not skipped
blackItemMatchesExpired(e, t, processedText, o) ==
  matchesItem(processedText,
              IF o.caseSensitive THEN normalizeItem(e) ELSE toLowerCase(normalizeItem(e)),
              o)

blackItemMatches(e, t, processedText, o) ==
  /\ ~(e.obj /\ isItemExpired(e, t))
  /\ matchesItem(processedText,
                 IF o.caseSensitive THEN normalizeItem(e) ELSE toLowerCase(normalizeItem(e)),
                 o)

whiteItemMatches(w, processedText, o) ==
  matchesItem(processedText, IF o.caseSensitive THEN w ELSE toLowerCase(w), o)

\* expirationReason is reassigned on every match that carries an expiry
expirationReasonOf(matched) ==
  LET dated == SelectSeq(matched, LAMBDA e : e.obj /\ e.expiresAt # NullDate)
  IN IF dated = <<>> THEN [def |-> FALSE, until |-> NullDate]
     ELSE [def |-> TRUE, until |-> dated[Len(dated)].expiresAt]

NoReason == [def |-> FALSE, until |-> NullDate]

\* faulty variant: the deny matches are looked at before the allow matches
checkStringDenyFirst(fs, t, text, o) ==
  LET processedText == IF o.caseSensitive THEN text ELSE toLowerCase(text)
      active == SelectSeq(fs, LAMBDA f : f.isActive)
      matchedBlackList ==
        Flatten([i \in 1..Len(active) |->
                   SelectSeq(active[i].blackList,
                             LAMBDA e : blackItemMatches(e, t, processedText, o))])
      matchedWhiteList ==
        Flatten([i \in 1..Len(active) |->
                   SelectSeq(active[i].whiteList,
                             LAMBDA w : whiteItemMatches(w, processedText, o))])
  IN IF Len(matchedBlackList) > 0
     THEN [isAllowed |-> FALSE, isBlocked |-> TRUE,
           matchedBlackList |-> matchedBlackList, matchedWhiteList |-> matchedWhiteList,
           reason |-> "blacklist", expirationReason |-> expirationReasonOf(matchedBlackList)]
     ELSE IF Len(matchedWhiteList) > 0
     THEN [isAllowed |-> TRUE, isBlocked |-> FALSE,
           matchedBlackList |-> matchedBlackList, matchedWhiteList |-> matchedWhiteList,
           reason |-> "whitelist", expirationReason |-> NoReason]
     ELSE [isAllowed |-> TRUE, isBlocked |-> FALSE,
           matchedBlackList |-> matchedBlackList, matchedWhiteList |-> matchedWhiteList,
           reason |-> "none", expirationReason |-> NoReason]

checkString(fs, t, text, o) ==
  LET processedText == IF o.caseSensitive THEN text ELSE toLowerCase(text)
      active == SelectSeq(fs, LAMBDA f : f.isActive)
      matchedBlackList ==
        Flatten([i \in 1..Len(active) |->
                   SelectSeq(active[i].blackList,
                             LAMBDA e : blackItemMatches(e, t, processedText, o))])
      matchedWhiteList ==
        Flatten([i \in 1..Len(active) |->
                   SelectSeq(active[i].whiteList,
                             LAMBDA w : whiteItemMatches(w, processedText, o))])
  IN IF Len(matchedWhiteList) > 0
     THEN [isAllowed |-> TRUE, isBlocked |-> FALSE,
           matchedBlackList |-> matchedBlackList, matchedWhiteList |-> matchedWhiteList,
           reason |-> "whitelist", expirationReason |-> NoReason]
     ELSE IF Len(matchedBlackList) > 0
     THEN [isAllowed |-> FALSE, isBlocked |-> TRUE,
           matchedBlackList |-> matchedBlackList, matchedWhiteList |-> matchedWhiteList,
           reason |-> "blacklist", expirationReason |-> expirationReasonOf(matchedBlackList)]
     ELSE [isAllowed |-> TRUE, isBlocked |-> FALSE,
           matchedBlackList |-> matchedBlackList, matchedWhiteList |-> matchedWhiteList,
           reason |-> "none", expirationReason |-> NoReason]

(***************************************************************************)
(* Persisted layout: JSON.stringify turns every Date into an ISO string;   *)
(* loadBackup turns the strings back into Dates.                           *)
(***************************************************************************)
JsonNull == [null |-> TRUE, iso |-> 0]
toISOString(d) == [null |-> FALSE, iso |-> d]
newDate(j) == j.iso

stringifyItem(e) ==
  [item |-> e.item, obj |-> e.obj,
   expiresAt |-> IF e.expiresAt = NullDate THEN JsonNull ELSE toISOString(e.expiresAt)]

stringify(fs) ==
  [i \in 1..Len(fs) |->
     [fs[i] EXCEPT !.updatedAt = toISOString(@),
                   !.blackList = [k \in 1..Len(@) |-> stringifyItem(@[k])]]]

\* typeof item === 'object' && 'item' in item && 'expiresAt' in item
rehydrateItem(j) ==
  IF j.obj
  THEN [item |-> j.item, obj |-> TRUE,
        expiresAt |-> IF j.expiresAt.null THEN NullDate ELSE newDate(j.expiresAt)]
  ELSE [item |-> j.item, obj |-> FALSE, expiresAt |-> NullDate]

rehydrate(data) ==
  [i \in 1..Len(data) |->
     [data[i] EXCEPT !.updatedAt = newDate(@),
                     !.blackList = [k \in 1..Len(@) |-> rehydrateItem(@[k])]]]

NoFile == [kind |-> "none", data |-> <<>>]
Malformed == [kind |-> "corrupt", data |-> <<>>]
Stored(data) == [kind |-> "data", data |-> data]

(***************************************************************************)
(* Character classes and scanning helpers of the regular expressions.      *)
(***************************************************************************)
LowerLetters == {"a", "b", "c", "d", "e", "f", "g", "h", "i", "j", "k", "l", "m",
                 "n", "o", "p", "q", "r", "s", "t", "u", "v", "w", "x", "y", "z"}
UpperLetters == {"A", "B", "C", "D", "E", "F", "G", "H", "I", "J", "K", "L", "M",
                 "N", "O", "P", "Q", "R", "S", "T", "U", "V", "W", "X", "Y", "Z"}
Digits == {"0", "1", "2", "3", "4", "5", "6", "7", "8", "9"}

\* [a-zA-Z0-9_]
IsWordChar(c) == c \in LowerLetters \cup UpperLetters \cup Digits \cup {"_"}

\* the characters that '.' does not match
IsLineTerminator(c) == c \in {"\n", "\r"}

Min(S) == CHOOSE x \in S : \A y \in S : x <= y
Max(S) == CHOOSE x \in S : \A y \in S : y <= x

\* does the literal p occur in s at position i
startsWithAt(s, i, p) ==
  i >= 1 /\ i + Len(p) - 1 <= Len(s) /\ SubSeq(s, i, i + Len(p) - 1) = p

\* the same under the i flag, for a lower-case literal p
startsWithAtCI(s, i, p) ==
  i >= 1 /\ i + Len(p) - 1 <= Len(s) /\ toLowerCase(SubSeq(s, i, i + Len(p) - 1)) = p

\* length of the longest match of [^\s]* at position i
nonSpaceRun(s, i) ==
  Min({j \in i..(Len(s) + 1) : j = Len(s) + 1 \/ IsSpace(s[j])}) - i

\* length of the longest match of \s* at position i
spaceRun(s, i) ==
  Min({j \in i..(Len(s) + 1) : j = Len(s) + 1 \/ ~IsSpace(s[j])}) - i

\* length of the longest match of [a-zA-Z0-9_]* at position i
wordCharRun(s, i) ==
  Min({j \in i..(Len(s) + 1) : j = Len(s) + 1 \/ ~IsWordChar(s[j])}) - i

\* length of the longest match of \d* at position i
digitRun(s, i) ==
  Min({j \in i..(Len(s) + 1) : j = Len(s) + 1 \/ s[j] \notin Digits}) - i

\* length of the run of the character at position i
sameCharRun(s, i) ==
  Min({j \in i..(Len(s) + 1) : j = Len(s) + 1 \/ s[j] # s[i]}) - i

(***************************************************************************)
(* spam-cleaner.ts: SpamCleaner.cleanUrls.  Each step is                   *)
(* text.replace(regex, ''); xxxMatch(s, i) is the length of the match that *)
(* starts at position i, 0 when there is none.                             *)
(***************************************************************************)
Tlds == {<<"c", "o", "m">>, <<"n", "e", "t">>, <<"o", "r", "g">>, <<"e", "d", "u">>, <<"g", "o", "v">>, <<"m", "i", "l">>, <<"i", "n", "f", "o">>, <<"b", "i", "z">>, <<"t", "v">>}

\* /(https?:\/\/[^\s]+)/gi
protocolUrlMatch(s, i) ==
  IF startsWithAtCI(s, i, <<"h", "t", "t", "p", "s", ":", "/", "/">>) /\ nonSpaceRun(s, i + 8) > 0
  THEN 8 + nonSpaceRun(s, i + 8)
  ELSE IF startsWithAtCI(s, i, <<"h", "t", "t", "p", ":", "/", "/">>) /\ nonSpaceRun(s, i + 7) > 0
  THEN 7 + nonSpaceRun(s, i + 7)
  ELSE 0

\* /(www\.[^\s]+)/gi
wwwMatch(s, i) ==
  IF startsWithAtCI(s, i, <<"w", "w", "w", ".">>) /\ nonSpaceRun(s, i + 4) > 0
  THEN 4 + nonSpaceRun(s, i + 4)
  ELSE 0

\* /([^\s]+\.(com|net|org|edu|gov|mil|info|biz|tv)([^\s]*)?)/gi
tldMatch(s, i) ==
  IF \E k \in (i + 1)..(i + nonSpaceRun(s, i) - 1) :
       s[k] = "." /\ \E t \in Tlds : startsWithAtCI(s, k + 1, t)
  THEN nonSpaceRun(s, i)
  ELSE 0

\* /([^\s]+\.twitch\.[^\s]+)/gi
twitchMatch(s, i) ==
  IF \E k \in (i + 1)..(i + nonSpaceRun(s, i) - 1) :
       startsWithAtCI(s, k, <<".", "t", "w", "i", "t", "c", "h", ".">>) /\ nonSpaceRun(s, k + 8) > 0
  THEN nonSpaceRun(s, i)
  ELSE 0

\* /tmi\.twitch\.tv/gi
tmiMatch(s, i) ==
  IF startsWithAtCI(s, i, <<"t", "m", "i", ".", "t", "w", "i", "t", "c", "h", ".", "t", "v">>)
  THEN 13 ELSE 0

\* /#[a-zA-Z0-9_]+/g
channelMatch(s, i) ==
  IF s[i] = "#" /\ wordCharRun(s, i + 1) > 0 THEN 1 + wordCharRun(s, i + 1) ELSE 0

\* /:[a-zA-Z0-9_]+\.[^\s]+/g
colonDomainMatch(s, i) ==
  LET w == wordCharRun(s, i + 1)
  IN IF /\ s[i] = ":"
        /\ w > 0
        /\ i + 1 + w <= Len(s)
        /\ s[i + 1 + w] = "."
        /\ nonSpaceRun(s, i + 2 + w) > 0
     THEN 2 + w + nonSpaceRun(s, i + 2 + w)
     ELSE 0

\* text with the positions of the set drop removed
without(s, drop) ==
  LET keep == {i \in 1..Len(s) : i \notin drop}
      RECURSIVE pick(_)
      pick(i) == IF i > Len(s) THEN <<>>
                 ELSE (IF i \in keep THEN <<s[i]>> ELSE <<>>) \o pick(i + 1)
  IN pick(1)

\* length of the match of the named regular expression that starts at i
matchLength(s, i, regex) ==
  CASE regex = "protocol" -> protocolUrlMatch(s, i)
    [] regex = "www" -> wwwMatch(s, i)
    [] regex = "tld" -> tldMatch(s, i)
    [] regex = "twitch" -> twitchMatch(s, i)
    [] regex = "tmi" -> tmiMatch(s, i)
    [] regex = "channel" -> channelMatch(s, i)
    [] regex = "colonDomain" -> colonDomainMatch(s, i)

\* s.replace(regex, '') with the g flag: the matches are found scanning left
\* to right
removeMatches(s, regex) ==
  LET RECURSIVE scan(_)
      scan(i) == IF i > Len(s) THEN {}
                 ELSE IF matchLength(s, i, regex) > 0
                 THEN (i..(i + matchLength(s, i, regex) - 1))
                        \cup scan(i + matchLength(s, i, regex))
                 ELSE scan(i + 1)
  IN without(s, scan(1))

\* text.replace(/\s+/g, ' ')
collapseSpaces(s) ==
  LET RECURSIVE go(_)
      go(i) == IF i > Len(s) THEN <<>>
               ELSE IF IsSpace(s[i]) THEN <<" ">> \o go(i + spaceRun(s, i))
               ELSE <<s[i]>> \o go(i + 1)
  IN go(1)

cleanUrls(text) ==
  trim(collapseSpaces(
    removeMatches(removeMatches(removeMatches(removeMatches(removeMatches(removeMatches(
      removeMatches(text, "protocol"), "www"), "tld"), "twitch"), "tmi"), "channel"),
      "colonDomain")))

(***************************************************************************)
(* spam-cleaner.ts: the three repetition passes, clean, quickClean, isUrl. *)
(***************************************************************************)
DefaultMinRepetitions == 3
DefaultMaxLength == 200
DefaultCleanerOptions ==
  [minRepetitions |-> DefaultMinRepetitions, maxLength |-> DefaultMaxLength,
   caseSensitive |-> FALSE]

\* pattern is Undefined where the caller passes no fifth argument
createResult(cleaned, wasSpam, repetitions, pattern) ==
  [cleaned |-> cleaned, wasSpam |-> wasSpam, repetitionsFound |-> repetitions,
   pattern |-> pattern]

\* text.match(/(.)\1{2,}/g): the start positions of the matches
charRunStarts(s) ==
  LET RECURSIVE scan(_)
      scan(i) == IF i > Len(s) THEN {}
                 ELSE IF sameCharRun(s, i) >= 3 /\ ~IsLineTerminator(s[i])
                 THEN {i} \cup scan(i + sameCharRun(s, i))
                 ELSE scan(i + 1)
  IN scan(1)

cleanRepeatedChars(text, o) ==
  LET starts == charRunStarts(text)
      spam == {i \in starts : sameCharRun(text, i) >= o.minRepetitions}
      maxRepetitions == IF spam = {} THEN 0 ELSE Max({sameCharRun(text, i) : i \in spam})
      drop == UNION {(i + 2)..(i + sameCharRun(text, i) - 1) : i \in spam}
      cleaned == IF starts # {} /\ maxRepetitions >= o.minRepetitions
                 THEN without(text, drop) ELSE text
      \* spamChar: the first character of the last match that qualifies
      spamChar == IF spam = {} THEN <<>> ELSE <<text[Max(spam)]>>
  IN createResult(cleaned, maxRepetitions >= o.minRepetitions, maxRepetitions,
                  Opt(spamChar))

\* text.split(/\s+/)
RECURSIVE split(_)
split(s) ==
  LET spaces == {i \in 1..Len(s) : IsSpace(s[i])}
  IN IF spaces = {} THEN <<s>>
     ELSE LET i == Min(spaces)
          IN <<SubSeq(s, 1, i - 1)>> \o split(SubSeq(s, i + spaceRun(s, i), Len(s)))

\* words.join(' ')
RECURSIVE join(_)
join(words) ==
  IF words = <<>> THEN <<>>
  ELSE IF Len(words) = 1 THEN words[1]
  ELSE words[1] \o <<" ">> \o join(Tail(words))

caseOf(s, o) == IF o.caseSensitive THEN s ELSE toLowerCase(s)

\* number of consecutive words equal to words[i], from i on
wordRepetitions(words, i, o) ==
  Min({j \in i..(Len(words) + 1) :
         j = Len(words) + 1 \/ caseOf(words[j], o) # caseOf(words[i], o)}) - i

\* faulty variant: only the first run that qualifies is collapsed
cleanRepeatedWordsFirstRun(text, o) ==
  LET words == split(text)
      rep(i) == wordRepetitions(words, i, o)
      RECURSIVE visited(_)
      visited(i) == IF i > Len(words) THEN {} ELSE {i} \cup visited(i + rep(i))
      spam == {i \in visited(1) : rep(i) >= o.minRepetitions}
      maxRepetitions == IF spam = {} THEN 0 ELSE Max({rep(i) : i \in spam})
      spamPattern == IF spam = {} THEN <<>> ELSE words[Max(spam)]
      first == Min(spam)
      cleaned == IF spam = {} THEN words
                 ELSE SubSeq(words, 1, first) \o SubSeq(words, first + rep(first), Len(words))
  IN IF Len(words) < o.minRepetitions THEN createResult(text, FALSE, 0, Undefined)
     ELSE createResult(join(cleaned), maxRepetitions >= o.minRepetitions, maxRepetitions,
                       Opt(spamPattern))

cleanRepeatedWords(text, o) ==
  LET words == split(text)
      rep(i) == wordRepetitions(words, i, o)
      RECURSIVE visited(_)
      visited(i) == IF i > Len(words) THEN {} ELSE {i} \cup visited(i + rep(i))
      spam == {i \in visited(1) : rep(i) >= o.minRepetitions}
      maxRepetitions == IF spam = {} THEN 0 ELSE Max({rep(i) : i \in spam})
      RECURSIVE go(_)
      go(i) == IF i > Len(words) THEN <<>>
               ELSE IF rep(i) >= o.minRepetitions THEN <<words[i]>> \o go(i + rep(i))
               ELSE SubSeq(words, i, i + rep(i) - 1) \o go(i + rep(i))
      \* spamPattern: the first word of the last run that qualifies
      spamPattern == IF spam = {} THEN <<>> ELSE words[Max(spam)]
  IN IF Len(words) < o.minRepetitions THEN createResult(text, FALSE, 0, Undefined)
     ELSE createResult(join(go(1)), maxRepetitions >= o.minRepetitions, maxRepetitions,
                       Opt(spamPattern))

\* words.slice(from, to) with 0-based from and exclusive to
slice(words, from, to) == SubSeq(words, from + 1, to)

\* number of consecutive repetitions of the phrase of phraseLength words at
\* 0-based index i
phraseRepetitions(words, i, phraseLength, o) ==
  LET phrase == caseOf(join(slice(words, i, i + phraseLength)), o)
      RECURSIVE count(_)
      count(nextIndex) ==
        IF /\ nextIndex + phraseLength <= Len(words)
           /\ caseOf(join(slice(words, nextIndex, nextIndex + phraseLength)), o) = phrase
        THEN 1 + count(nextIndex + phraseLength)
        ELSE 0
  IN 1 + count(i + phraseLength)

findAndCleanRepeatedPhrase(text, phraseLength, o) ==
  LET words == split(text)
      hits == {i \in 0..(Len(words) - phraseLength * o.minRepetitions) :
                 phraseRepetitions(words, i, phraseLength, o) >= o.minRepetitions}
  IN IF Len(words) < phraseLength * o.minRepetitions \/ hits = {}
     THEN createResult(text, FALSE, 0, Undefined)
     ELSE LET i == Min(hits)
              repetitions == phraseRepetitions(words, i, phraseLength, o)
              before == join(slice(words, 0, i))
              phrase == join(slice(words, i, i + phraseLength))
              after == join(slice(words, i + phraseLength * repetitions, Len(words)))
              cleanedParts == SelectSeq(<<before, phrase, after>>,
                                        LAMBDA part : Len(trim(part)) > 0)
          IN createResult(join(cleanedParts), TRUE, repetitions, Opt(phrase))

\* faulty variant: the shortest phrase length that repeats is taken
cleanRepeatedPhrasesShortest(text, o) ==
  LET words == split(text)
      first == IF 5 <= Len(words) \div o.minRepetitions
               THEN 5 ELSE Len(words) \div o.minRepetitions
      hits == {l \in 2..first : findAndCleanRepeatedPhrase(text, l, o).wasSpam}
  IN IF hits = {} THEN createResult(text, FALSE, 0, Undefined)
     ELSE findAndCleanRepeatedPhrase(text, Min(hits), o)

cleanRepeatedPhrases(text, o) ==
  LET words == split(text)
      first == IF 5 <= Len(words) \div o.minRepetitions
               THEN 5 ELSE Len(words) \div o.minRepetitions
      hits == {l \in 2..first : findAndCleanRepeatedPhrase(text, l, o).wasSpam}
  IN IF hits = {} THEN createResult(text, FALSE, 0, Undefined)
     ELSE findAndCleanRepeatedPhrase(text, Max(hits), o)

\* faulty variant: the pattern of the last pass that marked spam is kept
cleanPassLastPattern(acc, pass, o) ==
  LET r == CASE pass = "chars" -> cleanRepeatedChars(acc.cleaned, o)
             [] pass = "phrases" -> cleanRepeatedPhrases(acc.cleaned, o)
             [] pass = "words" -> cleanRepeatedWords(acc.cleaned, o)
  IN IF r.wasSpam
     THEN createResult(r.cleaned, TRUE, Max({acc.repetitionsFound, r.repetitionsFound}),
                       IF r.pattern.def THEN r.pattern ELSE Opt(<<>>))
     ELSE acc

\* one pass of clean on the text so far: its result is taken when it marked spam
cleanPass(acc, pass, o) ==
  LET r == CASE pass = "chars" -> cleanRepeatedChars(acc.cleaned, o)
             [] pass = "phrases" -> cleanRepeatedPhrases(acc.cleaned, o)
             [] pass = "words" -> cleanRepeatedWords(acc.cleaned, o)
      \* mainPattern || r.pattern || ''
      mainPattern == IF acc.pattern.val # <<>> THEN acc.pattern
                     ELSE IF r.pattern.def THEN r.pattern ELSE Opt(<<>>)
  IN IF r.wasSpam
     THEN createResult(r.cleaned, TRUE, Max({acc.repetitionsFound, r.repetitionsFound}),
                       mainPattern)
     ELSE acc

\* currentText.substring(0, maxLength - 3) + '...'
truncate(acc, o) ==
  IF Len(acc.cleaned) > o.maxLength
  THEN createResult(SubSeq(acc.cleaned, 1, o.maxLength - 3) \o <<".", ".", ".">>,
                    acc.wasSpam, acc.repetitionsFound, acc.pattern)
  ELSE acc

\* clean up to the truncation: the URLs removed, then the three passes
cascade(message, o) ==
  cleanPass(
    cleanPass(
      cleanPass(createResult(cleanUrls(trim(message)), FALSE, 0, Opt(<<>>)), "chars", o),
      "phrases", o),
    "words", o)

clean(message, o) ==
  IF trim(message) = <<>> THEN createResult(<<>>, FALSE, 0, Undefined)
  ELSE truncate(cascade(message, o), o)

\* new URL(text) does not throw.  A text parses only with a scheme
\* ([A-Za-z][A-Za-z0-9+.-]*:) in front; the special schemes also need a host.
newURLParses(text) ==
  LET SchemeChars == LowerLetters \cup UpperLetters \cup Digits \cup {"+", ".", "-"}
      SpecialSchemes == {<<"h", "t", "t", "p">>, <<"h", "t", "t", "p", "s">>,
                         <<"f", "t", "p">>, <<"w", "s">>, <<"w", "s", "s">>}
      s == trim(text)
      colons == {i \in 1..Len(s) : s[i] = ":"}
  IN /\ colons # {}
     /\ LET c == Min(colons)
            scheme == toLowerCase(SubSeq(s, 1, c - 1))
            slashes == Min({j \in (c + 1)..(Len(s) + 1) :
                              j = Len(s) + 1 \/ s[j] \notin {"/", "\\"}}) - (c + 1)
            hostStart == c + 1 + slashes
        IN /\ c > 1
           /\ s[1] \in LowerLetters \cup UpperLetters
           /\ \A k \in 2..(c - 1) : s[k] \in SchemeChars
           /\ scheme \in SpecialSchemes =>
                /\ hostStart <= Len(s)
                /\ s[hostStart] \notin {"?", "#", " ", ":"}

IsLabelChar(c) == c \in LowerLetters \cup UpperLetters \cup Digits \cup {"-"}

\* /^(www\.)?[a-z0-9-]+(\.[a-z0-9-]+)+([/?].*)?$/i
urlPattern(text) ==
  LET stops == {i \in 1..Len(text) : text[i] \in {"/", "?"}}
      head == IF stops = {} THEN text ELSE SubSeq(text, 1, Min(stops) - 1)
      tail == IF stops = {} THEN <<>> ELSE SubSeq(text, Min(stops) + 1, Len(text))
      dots == {i \in 1..Len(head) : head[i] = "."}
  IN /\ dots # {}
     /\ \A i \in 1..Len(head) : head[i] = "." \/ IsLabelChar(head[i])
     /\ head[1] # "."
     /\ head[Len(head)] # "."
     /\ \A i \in dots : (i + 1) \notin dots
     /\ \A i \in 1..Len(tail) : ~IsLineTerminator(tail[i])

isUrl(text) == newURLParses(text) \/ urlPattern(text)

quickClean(message) ==
  IF isUrl(message) THEN <<>> ELSE clean(message, DefaultCleanerOptions).cleaned

(***************************************************************************)
(* ConfigurableReplacer.ts: replace on a text.                             *)
(***************************************************************************)
getDefaultReplacements ==
  <<[pattern |-> <<"u", "n", "i", "q", "u", "e", "I", "d">>,
     dataKey |-> "uniqueId", defaultValue |-> <<"t", "e", "s", "t", "U", "s", "e", "r">>],
    [pattern |-> <<"u", "n", "i", "q", "u", "e", "i", "d">>,
     dataKey |-> "uniqueId", defaultValue |-> <<"t", "e", "s", "t", "U", "s", "e", "r">>],
    [pattern |-> <<"n", "i", "c", "k", "n", "a", "m", "e">>,
     dataKey |-> "nickname", defaultValue |-> <<"t", "e", "s", "t", "U", "s", "e", "r">>],
    [pattern |-> <<"c", "o", "m", "m", "e", "n", "t">>,
     dataKey |-> "comment", defaultValue |-> <<"t", "e", "s", "t", "C", "o", "m", "m", "e", "n", "t">>],
    [pattern |-> <<"c", "o", "n", "t", "e", "n", "t">>,
     dataKey |-> "content", defaultValue |-> <<"t", "e", "s", "t", "M", "e", "s", "s", "a", "g", "e">>],
    [pattern |-> <<"{", "m", "i", "l", "e", "s", "t", "o", "n", "e", "L", "i", "k", "e", "s", "}">>,
     dataKey |-> "likeCount", defaultValue |-> <<"5", "0", "t", "e", "s", "t", "L", "i", "k", "e", "s">>],
    [pattern |-> <<"{", "l", "i", "k", "e", "s", "}">>,
     dataKey |-> "likeCount", defaultValue |-> <<"5", "0", "t", "e", "s", "t", "L", "i", "k", "e", "s">>],
    [pattern |-> <<"m", "e", "s", "s", "a", "g", "e">>,
     dataKey |-> "comment", defaultValue |-> <<"t", "e", "s", "t", "c", "o", "m", "m", "e", "n", "t">>],
    [pattern |-> <<"g", "i", "f", "t", "N", "a", "m", "e">>,
     dataKey |-> "giftName", defaultValue |-> <<"t", "e", "s", "t", "g", "i", "f", "t", "N", "a", "m", "e">>],
    [pattern |-> <<"g", "i", "f", "t", "n", "a", "m", "e">>,
     dataKey |-> "giftName", defaultValue |-> <<"t", "e", "s", "t", "g", "i", "f", "t", "N", "a", "m", "e">>],
    [pattern |-> <<"r", "e", "p", "e", "a", "t", "C", "o", "u", "n", "t">>,
     dataKey |-> "repeatCount", defaultValue |-> <<"1", "2", "3">>],
    [pattern |-> <<"r", "e", "p", "e", "a", "t", "c", "o", "u", "n", "t">>,
     dataKey |-> "repeatCount", defaultValue |-> <<"1", "2", "3">>],
    [pattern |-> <<"p", "l", "a", "y", "e", "r", "n", "a", "m", "e">>,
     dataKey |-> "playerName", defaultValue |-> <<"@", "a">>],
    [pattern |-> <<"d", "i", "a", "m", "o", "n", "d", "s">>,
     dataKey |-> "diamondCount", defaultValue |-> <<"5", "0", "t", "e", "s", "t", "D", "i", "a", "m", "o", "n", "d", "s">>],
    [pattern |-> <<"l", "i", "k", "e", "c", "o", "u", "n", "t">>,
     dataKey |-> "likeCount", defaultValue |-> <<"5", "0", "t", "e", "s", "t", "L", "i", "k", "e", "s">>],
    [pattern |-> <<"f", "o", "l", "l", "o", "w", "R", "o", "l", "e">>,
     dataKey |-> "followRole", defaultValue |-> <<"f", "o", "l", "l", "o", "w", "R", "o", "l", "e", " ", "0">>],
    [pattern |-> <<"u", "s", "e", "r", "I", "d">>,
     dataKey |-> "userId", defaultValue |-> <<"1", "2", "3", "5", "6", "4", "6">>],
    [pattern |-> <<"t", "e", "a", "m", "M", "e", "m", "b", "e", "r", "L", "e", "v", "e", "l">>,
     dataKey |-> "teamMemberLevel", defaultValue |-> <<"t", "e", "a", "m", "M", "e", "m", "b", "e", "r", "L", "e", "v", "e", "l", " ", "0">>],
    [pattern |-> <<"s", "u", "b", "M", "o", "n", "t", "h">>,
     dataKey |-> "subMonth", defaultValue |-> <<"s", "u", "b", "M", "o", "n", "t", "h", " ", "0">>],
    [pattern |-> <<"u", "s", "e", "r">>,
     dataKey |-> "user", defaultValue |-> <<>>],
    [pattern |-> <<"m", "s", "g">>,
     dataKey |-> "msg", defaultValue |-> <<>>]>>

\* JavaScript values: a text is Opt(<its characters>), an absent value is
\* Undefined, every other value carries its kind
JsNull == [def |-> TRUE, kind |-> "null"]
JsNumber(n) == [def |-> TRUE, kind |-> "number", num |-> n]
JsBoolean(b) == [def |-> TRUE, kind |-> "boolean", bool |-> b]
JsArray(items) == [def |-> TRUE, kind |-> "array", items |-> items]
\* a plain object: its own enumerable properties in insertion order
JsObject(entries) == [def |-> TRUE, kind |-> "object", entries |-> entries]

kindOf(v) ==
  IF ~v.def THEN "undefined" ELSE IF "kind" \in DOMAIN v THEN v.kind ELSE "string"

RECURSIVE numberToString(_)
numberToString(n) ==
  IF n < 10 THEN <<<<"0", "1", "2", "3", "4", "5", "6", "7", "8", "9">>[n + 1]>>
  ELSE numberToString(n \div 10) \o numberToString(n % 10)

\* String(value) for a text, a number, a boolean or null
String(v) ==
  CASE kindOf(v) = "string" -> v.val
    [] kindOf(v) = "number" -> numberToString(v.num)
    [] kindOf(v) = "boolean" -> IF v.bool THEN <<"t", "r", "u", "e">> ELSE <<"f", "a", "l", "s", "e">>
    [] kindOf(v) = "null" -> <<"n", "u", "l", "l">>

\* this.config of new ConfigurableReplacer()
DefaultConfig == [replacements |-> getDefaultReplacements, removeBackslashes |-> TRUE]

\* data[dataKey]: undefined for a key the data object does not have
dataValue(data, dataKey) ==
  IF dataKey \in DOMAIN data THEN data[dataKey] ELSE Undefined

\* String(data[dataKey] === undefined ? defaultValue : data[dataKey])
replaceValue(data, options) ==
  String(IF ~dataValue(data, options.dataKey).def
         THEN Opt(options.defaultValue)
         ELSE dataValue(data, options.dataKey))

\* the replacement patterns of String.prototype.replace in the value: $$, $&,
\* $` and $' (a regular expression built by escapeRegExp has no groups)
expandReplacement(value, s, i, n) ==
  LET RECURSIVE go(_)
      go(k) ==
        IF k > Len(value) THEN <<>>
        ELSE IF value[k] = "$" /\ k < Len(value) /\ value[k + 1] = "$"
        THEN <<"$">> \o go(k + 2)
        ELSE IF value[k] = "$" /\ k < Len(value) /\ value[k + 1] = "&"
        THEN SubSeq(s, i, i + n - 1) \o go(k + 2)
        ELSE IF value[k] = "$" /\ k < Len(value) /\ value[k + 1] = "`"
        THEN SubSeq(s, 1, i - 1) \o go(k + 2)
        ELSE IF value[k] = "$" /\ k < Len(value) /\ value[k + 1] = "'"
        THEN SubSeq(s, i + n, Len(s)) \o go(k + 2)
        ELSE <<value[k]>> \o go(k + 1)
  IN go(1)

\* s.replace(new RegExp(escapeRegExp(pattern), "g"), value), pattern not empty
replaceAll(s, pattern, value) ==
  LET RECURSIVE go(_)
      go(i) == IF i > Len(s) THEN <<>>
               ELSE IF startsWithAt(s, i, pattern)
               THEN expandReplacement(value, s, i, Len(pattern)) \o go(i + Len(pattern))
               ELSE <<s[i]>> \o go(i + 1)
  IN go(1)

\* replacedText.replace(/\\/g, "")
removeBackslashes(s) == SelectSeq(s, LAMBDA c : c # "\\")

replaceInString(text, data, config) ==
  LET RECURSIVE apply(_, _)
      apply(k, replacedText) ==
        IF k > Len(config.replacements) THEN replacedText
        ELSE apply(k + 1, replaceAll(replacedText, config.replacements[k].pattern,
                                     replaceValue(data, config.replacements[k])))
  IN IF config.removeBackslashes THEN removeBackslashes(apply(1, text)) ELSE apply(1, text)

\* trackingRegex.exec(text) !== null, pattern not empty
occurs(text, pattern) == \E i \in 1..Len(text) : startsWithAt(text, i, pattern)

\* Map.prototype.set: a key already in the map keeps its place
mapSet(m, key, value) ==
  IF \E i \in 1..Len(m) : m[i].key = key
  THEN [i \in 1..Len(m) |-> IF m[i].key = key THEN [key |-> key, value |-> value] ELSE m[i]]
  ELSE Append(m, [key |-> key, value |-> value])

\* the entry set for a pattern with a match in the text
track(text, replacementMap, pattern, dataKey, valueToReplaceWith) ==
  IF occurs(text, pattern)
  THEN mapSet(replacementMap, valueToReplaceWith,
              [original |-> pattern, dataKey |-> dataKey, replaced |-> valueToReplaceWith])
  ELSE replacementMap

replaceInStringWithTracking(text, data, replacementMap, config) ==
  LET RECURSIVE apply(_, _, _)
      apply(k, currentTextState, m) ==
        IF k > Len(config.replacements)
        THEN [result |-> Opt(IF config.removeBackslashes
                             THEN removeBackslashes(currentTextState)
                             ELSE currentTextState),
              replacementMap |-> m]
        ELSE apply(k + 1,
                   replaceAll(currentTextState, config.replacements[k].pattern,
                              replaceValue(data, config.replacements[k])),
                   track(text, m, config.replacements[k].pattern,
                         config.replacements[k].dataKey,
                         replaceValue(data, config.replacements[k])))
  IN apply(1, text, replacementMap)

\* input.constructor === Object: an own property named constructor hides the
\* one inherited from Object.prototype
constructorIsObject(input) ==
  \A i \in 1..Len(input.entries) : input.entries[i].key # "constructor"

RECURSIVE processRecursively(_, _, _)
processRecursively(input, data, config) ==
  CASE kindOf(input) \in {"null", "undefined"} -> input
    [] kindOf(input) = "string" -> Opt(replaceInString(input.val, data, config))
    [] kindOf(input) = "array" ->
         JsArray([i \in 1..Len(input.items) |-> processRecursively(input.items[i], data, config)])
    [] kindOf(input) = "object" /\ constructorIsObject(input) ->
         JsObject([i \in 1..Len(input.entries) |->
                     [key |-> input.entries[i].key,
                      value |-> processRecursively(input.entries[i].value, data, config)]])
    [] OTHER -> input

replace(input, data, config) == processRecursively(input, data, config)

\* the element or property just processed joins the ones before it
collect(acc, key, r) ==
  [result |-> Append(acc.result, IF key = "" THEN r.result ELSE [key |-> key, value |-> r.result]),
   replacementMap |-> r.replacementMap]

RECURSIVE processRecursivelyWithTracking(_, _, _, _)
processRecursivelyWithTracking(input, data, replacementMap, config) ==
  LET RECURSIVE mapItems(_, _)
      mapItems(i, acc) ==
        IF i > Len(input.items)
        THEN [result |-> JsArray(acc.result), replacementMap |-> acc.replacementMap]
        ELSE mapItems(i + 1,
                      collect(acc, "",
                              processRecursivelyWithTracking(input.items[i], data,
                                                             acc.replacementMap, config)))
      RECURSIVE forEntries(_, _)
      forEntries(i, acc) ==
        IF i > Len(input.entries)
        THEN [result |-> JsObject(acc.result), replacementMap |-> acc.replacementMap]
        ELSE forEntries(i + 1,
                        collect(acc, input.entries[i].key,
                                processRecursivelyWithTracking(input.entries[i].value, data,
                                                               acc.replacementMap, config)))
  IN CASE kindOf(input) \in {"null", "undefined"} ->
            [result |-> input, replacementMap |-> replacementMap]
       [] kindOf(input) = "string" ->
            replaceInStringWithTracking(input.val, data, replacementMap, config)
       [] kindOf(input) = "array" ->
            mapItems(1, [result |-> <<>>, replacementMap |-> replacementMap])
       [] kindOf(input) = "object" /\ constructorIsObject(input) ->
            forEntries(1, [result |-> <<>>, replacementMap |-> replacementMap])
       [] OTHER -> [result |-> input, replacementMap |-> replacementMap]

\* const replacementMap = new Map(); ... return { result, replacementMap }
replaceWithTracking(input, data, config) ==
  processRecursivelyWithTracking(input, data, <<>>, config)
(***************************************************************************)
(* clean-emotes.ts.                                                        *)
(***************************************************************************)
\* /\[emote:\d+:[^\]]+\]/g
emoteMatch(s, i) ==
  LET d == digitRun(s, i + 7)
      body == i + 7 + d + 1
      closing == {j \in (body + 1)..Len(s) : s[j] = "]"}
  IN IF /\ startsWithAt(s, i, <<"[", "e", "m", "o", "t", "e", ":">>)
        /\ d > 0
        /\ i + 7 + d <= Len(s)
        /\ s[i + 7 + d] = ":"
        /\ body <= Len(s)
        /\ s[body] # "]"
        /\ closing # {}
     THEN Min(closing) - i + 1
     ELSE 0

removeEmotes(message) ==
  IF message = <<>> THEN <<>>
  ELSE LET RECURSIVE scan(_)
           scan(i) == IF i > Len(message) THEN {}
                      ELSE IF emoteMatch(message, i) > 0
                      THEN (i..(i + emoteMatch(message, i) - 1))
                             \cup scan(i + emoteMatch(message, i))
                      ELSE scan(i + 1)
       IN trim(without(message, scan(1)))

(***************************************************************************)
(* utils/index.ts: processIaResponse and contentTEXT on a flat event       *)
(* payload (no nested data or payload object).  Keys are compared in lower *)
(* case.                                                                   *)
(***************************************************************************)
ORIGINAL_USER_IDENTIFIER_KEYS == <<"id">>
ORIGINAL_USER_DISPLAY_KEYS == <<"displayname", "nickname", "username">>
ORIGINAL_MESSAGE_CONTENT_KEYS == <<"message", "content", "comment", "text", "msg">>

\* the value under the lower-cased key of a payload with the keys nickname,
\* uniqueId, comment and eventName
normalizedValue(body, key) ==
  CASE key = "nickname" -> body.nickname
    [] key = "uniqueid" -> body.uniqueId
    [] key = "comment" -> body.comment
    [] key = "eventname" -> body.eventName
    [] OTHER -> Undefined

extractValue(body, possibleKeys) ==
  LET found == {k \in 1..Len(possibleKeys) : normalizedValue(body, possibleKeys[k]).def}
  IN IF found = {} THEN Undefined ELSE normalizedValue(body, possibleKeys[Min(found)])

processIaResponse(iaResponse) ==
  [id |-> extractValue(iaResponse, ORIGINAL_USER_IDENTIFIER_KEYS),
   uniqueId |-> extractValue(iaResponse,
                             SelectSeq(ORIGINAL_USER_IDENTIFIER_KEYS, LAMBDA k : k # "id")),
   nickname |-> extractValue(iaResponse, ORIGINAL_USER_DISPLAY_KEYS),
   displayName |-> extractValue(iaResponse, ORIGINAL_USER_DISPLAY_KEYS),
   username |-> extractValue(iaResponse, ORIGINAL_USER_DISPLAY_KEYS),
   comment |-> extractValue(iaResponse, ORIGINAL_MESSAGE_CONTENT_KEYS),
   content |-> extractValue(iaResponse, ORIGINAL_MESSAGE_CONTENT_KEYS),
   message |-> extractValue(iaResponse, ORIGINAL_MESSAGE_CONTENT_KEYS),
   msg |-> extractValue(iaResponse, ORIGINAL_MESSAGE_CONTENT_KEYS),
   text |-> extractValue(iaResponse, ORIGINAL_MESSAGE_CONTENT_KEYS)]

preferredUserDisplayNameKeys == <<"displayName", "nickname", "username", "uniqueId">>
preferredMessageContentKeys == <<"message", "content", "comment", "text", "msg">>

selectValueByPriority(obj, priorityKeys) ==
  LET found == {k \in 1..Len(priorityKeys) : obj[priorityKeys[k]].def}
  IN IF found = {} THEN Undefined ELSE obj[priorityKeys[Min(found)]]

contentTEXT(processedMessage) ==
  [user |-> selectValueByPriority(processedMessage, preferredUserDisplayNameKeys),
   msg |-> selectValueByPriority(processedMessage, preferredMessageContentKeys)]

(***************************************************************************)
(* index.ts: the /webhook handler up to the emission.                      *)
(***************************************************************************)
tUserMsg == <<"u", "s", "e", "r", " ", "m", "s", "g">>
tProhibida == <<"p", "a", "l", "a", "b", "r", "a", "-", "p", "r", "o", "h", "i", "b", "i", "d", "a", "-", "p", "e", "r", "m", "a", "n", "e", "n", "t", "e">>
NoteventNames == {<<"s", "e", "r", "v", "e", "r">>, <<"j", "o", "i", "n">>, <<"l", "e", "a", "v", "e">>, <<"u", "n", "k", "n", "o", "w", "n">>}

\* !value for an optional text: undefined and '' are falsy
Falsy(v) == ~v.def \/ v.val = <<>>

\* cleanText of the handler
webhookCleanText(body) ==
  LET c == contentTEXT(processIaResponse(body))
  IN removeEmotes(replaceInString(tUserMsg, [user |-> c.user, msg |-> c.msg],
                                  DefaultConfig))

\* the condition under which the handler answers without emitting
webhookIgnores(fs, t, body) ==
  LET c == contentTEXT(processIaResponse(body))
  IN \/ Falsy(c.user) /\ Falsy(c.msg)
     \/ body.eventName.def /\ body.eventName.val \in NoteventNames
     \/ checkString(fs, t, webhookCleanText(body), DefaultOptions).isBlocked

(***************************************************************************)
(* utils/index.ts: MessageQueue.  A message is a record of the payload's   *)
(* content, id, isRead, createdAt and readAt; a date is a Date object, the *)
(* ISO string that JSON.stringify makes of it, or undefined.  The          *)
(* operations are functions of the array queue and the current time t.     *)
(***************************************************************************)
MaxMessages == 2

NoDate == [type |-> "undefined", t |-> 0]
DateAt(t) == [type |-> "Date", t |-> t]

\* { ...message, id: crypto.randomUUID(), isRead: false, createdAt: new Date() }
newMessage(message, uuid, t) ==
  [message EXCEPT !.id = uuid, !.isRead = FALSE, !.createdAt = DateAt(t)]

add(queue, message, uuid, t) == Append(queue, newMessage(message, uuid, t))

\* this.queue.find(m => !m.isRead): the index of the first match, 0 for
\* undefined
findUnread(queue) ==
  IF \E i \in 1..Len(queue) : ~queue[i].isRead
  THEN Min({i \in 1..Len(queue) : ~queue[i].isRead})
  ELSE 0

\* this.queue.find(m => m.id === id)
findById(queue, id) ==
  IF \E i \in 1..Len(queue) : queue[i].id = id
  THEN Min({i \in 1..Len(queue) : queue[i].id = id})
  ELSE 0

\* faulty variant: the unread message added last is taken
getNextUnreadLast(queue, isRed, t) ==
  LET unreadAt == {i \in 1..Len(queue) : ~queue[i].isRead}
      i == IF unreadAt = {} THEN 0 ELSE Max(unreadAt)
  IN IF i = 0 THEN [queue |-> queue, msg |-> 0]
     ELSE [queue |-> [queue EXCEPT ![i].isRead = isRed, ![i].readAt = DateAt(t)],
           msg |-> i]

\* faulty variant: the message is marked read whatever isRed is
getNextUnreadMarking(queue, isRed, t) ==
  LET i == findUnread(queue)
  IN IF i = 0 THEN [queue |-> queue, msg |-> 0]
     ELSE [queue |-> [queue EXCEPT ![i].isRead = TRUE, ![i].readAt = DateAt(t)],
           msg |-> i]

\* the queue after the call and the index of the message returned, 0 for
\* undefined
getNextUnread(queue, isRed, t) ==
  LET i == findUnread(queue)
  IN IF i = 0 THEN [queue |-> queue, msg |-> 0]
     ELSE [queue |-> [queue EXCEPT ![i].isRead = isRed, ![i].readAt = DateAt(t)],
           msg |-> i]

\* faulty variant: every message with the id or a smaller one is marked
markAsReadUpTo(queue, id, t) ==
  LET i == findById(queue, id)
  IN IF i = 0 THEN [queue |-> queue, ok |-> FALSE]
     ELSE [queue |-> [k \in 1..Len(queue) |->
                        IF k <= i THEN [queue[k] EXCEPT !.isRead = TRUE, !.readAt = DateAt(t)]
                        ELSE queue[k]],
           ok |-> TRUE]

markAsRead(queue, id, t) ==
  LET i == findById(queue, id)
  IN IF i = 0 THEN [queue |-> queue, ok |-> FALSE]
     ELSE [queue |-> [queue EXCEPT ![i].isRead = TRUE, ![i].readAt = DateAt(t)],
           ok |-> TRUE]

markAllAsRead(queue, t) ==
  [queue |-> [k \in 1..Len(queue) |->
                IF ~queue[k].isRead
                THEN [queue[k] EXCEPT !.isRead = TRUE, !.readAt = DateAt(t)]
                ELSE queue[k]],
   count |-> Cardinality({k \in 1..Len(queue) : ~queue[k].isRead})]

unread(queue) == SelectSeq(queue, LAMBDA m : ~m.isRead)

size(queue) == Len(queue)

unreadSize(queue) == Len(SelectSeq(queue, LAMBDA m : ~m.isRead))

\* getAll(isRead): the filter m.isRead === isRead for a boolean, else the queue
getAll(queue, isRead) ==
  IF isRead.def THEN SelectSeq(queue, LAMBDA m : m.isRead = isRead.val) ELSE queue

\* JSON.stringify of the queue: a Date becomes its ISO string
toJSON(d) == IF d.type = "Date" THEN [type |-> "string", t |-> d.t] ELSE d

stringifyQueue(queue) ==
  [k \in 1..Len(queue) |->
     [queue[k] EXCEPT !.createdAt = toJSON(@), !.readAt = toJSON(@)]]

(***************************************************************************)
(* Inputs.                                                                 *)
(***************************************************************************)
sA == <<"a">>
sPadA == <<" ", "a">>
sUpB == <<"B">>
sBPad == <<"B", " ">>
sAb == <<"a", "b">>
sBa == <<"b", "a">>
sX == <<"x">>

DenyArgs == {sPadA}
RemoveArgs == {sPadA, sUpB}
AllowArgs == {sUpB}
DenyListArgs == {<<>>, <<sUpB, sBPad>>}
AllowListArgs == {<<>>, <<sUpB>>}
\* item lists handed to addItemsToBlacklist: one has an item of blanks only
ItemLists == {<<sX>>, <<<<" ">>, sAb>>}
Ids == {"default"}
Ttls == {NullTtl, 0, 1}
Texts == {sA, sAb, sBa, sUpB, sX, <<>>}
AllOptions == [caseSensitive : BOOLEAN, exactMatch : BOOLEAN, partialMatch : BOOLEAN]
CheckTexts == {sAb}
CheckOptions == {DefaultOptions, [DefaultOptions EXCEPT !.caseSensitive = TRUE]}

\* event payloads
Bodies ==
  [nickname : {Undefined, Opt(<<"u">>)},
   uniqueId : {Undefined},
   comment : {Undefined,
              Opt(<<"h", "o", "l", "a">>),
              Opt(<<"h", "o", "l", "a", "a", "a">>),
              Opt(<<"[", "e", "m", "o", "t", "e", ":", "1", ":", "x", "]">>),
              Opt(tProhibida),
              \* palabra-prohibida#x-permanente
              Opt(<<"p", "a", "l", "a", "b", "r", "a", "-", "p", "r", "o", "h", "i", "b", "i", "d", "a", "#", "x", "-", "p", "e", "r", "m", "a", "n", "e", "n", "t", "e">>)},
   eventName : {Opt(<<"c", "h", "a", "t">>), Opt(<<"j", "o", "i", "n">>)}]
  \cup
  \* events that name their sender by uniqueId
  [nickname : {Undefined, Opt(<<"u">>)},
   uniqueId : {Opt(<<"i", "d", "7">>)},
   comment : {Undefined, Opt(<<"h", "o", "l", "a">>)},
   eventName : {Opt(<<"c", "h", "a", "t">>)}]

\* a table left on disk by an earlier run: one temporary entry that expired at 0
PriorTable ==
  <<[id |-> "default", blackList |-> <<Temp(sA, 0)>>, whiteList |-> <<>>,
     updatedAt |-> 0, isActive |-> TRUE]>>


\* tables left on disk by an earlier run, with deny entries that expire
\* during this run, in active and inactive filter sets
SweepTables ==
  {PriorTable,
   <<[id |-> "default", blackList |-> <<Temp(sA, 2), Temp(sAb, 3), Perm(sUpB)>>,
      whiteList |-> <<sX>>, updatedAt |-> 0, isActive |-> TRUE]>>,
   <<[id |-> "default", blackList |-> <<Temp(sAb, 1), Perm(sA), Temp(sBa, 3)>>,
      whiteList |-> <<>>, updatedAt |-> 0, isActive |-> TRUE],
     [id |-> "default", blackList |-> <<Temp(sA, 2)>>,
      whiteList |-> <<sUpB>>, updatedAt |-> 0, isActive |-> FALSE]>>,
   <<[id |-> "default", blackList |-> <<Perm(sA)>>,
      whiteList |-> <<>>, updatedAt |-> 0, isActive |-> TRUE],
     [id |-> "default", blackList |-> <<Temp(sA, 1), Temp(sAb, 2)>>,
      whiteList |-> <<>>, updatedAt |-> 0, isActive |-> TRUE]>>,
   <<[id |-> "default", blackList |-> <<Temp(sBa, 1), Temp(sA, 1), Perm(sAb), Temp(sX, 2)>>,
      whiteList |-> <<>>, updatedAt |-> 0, isActive |-> FALSE],
     [id |-> "default", blackList |-> <<Temp(sAb, 2), Temp(sA, 1)>>,
      whiteList |-> <<sBa>>, updatedAt |-> 0, isActive |-> TRUE]>>}

\* payloads of add: a plain one, and one that carries an id in use, isRead
\* true and a readAt
Payloads ==
  {[content |-> <<"A">>, id |-> 0, isRead |-> FALSE, createdAt |-> NoDate, readAt |-> NoDate],
   [content |-> <<"B">>, id |-> 1, isRead |-> TRUE, createdAt |-> NoDate, readAt |-> NoDate]}

\* ids asked for: those that can be in the queue, and one that never is
MessageIds == 1..(MaxMessages + 1)
\* configurations, inputs and data objects of the replacer
CustomConfig ==
  [replacements |->
     <<[pattern |-> <<"{", "a", "}">>, dataKey |-> "a", defaultValue |-> <<"{", "b", "}">>],
       [pattern |-> <<"{", "b", "}">>, dataKey |-> "b", defaultValue |-> <<"B">>],
       [pattern |-> <<"a", ".", "c">>, dataKey |-> "c", defaultValue |-> <<"$">>]>>,
   removeBackslashes |-> FALSE]

Configs == {DefaultConfig, CustomConfig}

ReplaceInputs ==
  {Opt(<<"u", "s", "e", "r", " ", "m", "s", "g">>),
   Opt(<<"m", "s", "g">>),
   Opt(<<"m", "\\", "s", "g">>),
   Opt(<<"{", "a", "}", " ", "a", "b", "c", " ", "a", ".", "c">>),
   Opt(<<"{", "a", "}", "{", "b", "}">>),
   JsArray(<<Opt(<<"u", "n", "i", "q", "u", "e", "i", "d">>), Opt(<<"u", "n", "i", "q", "u", "e", "I", "d">>)>>),
   JsObject(<<[key |-> "text", value |-> Opt(<<"u", "s", "e", "r">>)],
              [key |-> "count", value |-> JsNumber(7)],
              [key |-> "list",
               value |-> JsArray(<<JsBoolean(TRUE), JsNull, Undefined, Opt(<<"m", "s", "g", " ", "{", "b", "}">>)>>)]>>),
   JsObject(<<[key |-> "constructor", value |-> Opt(<<"x">>)],
              [key |-> "text", value |-> Opt(<<"u", "s", "e", "r">>)]>>),
   JsNumber(3),
   JsNull,
   Undefined,
   JsArray(<<>>)}

ReplaceData ==
  {[user |-> Opt(<<"u">>), msg |-> Opt(<<"h", "o", "l", "a">>)],
   [user |-> Opt(<<"m", "s", "g">>), msg |-> Opt(<<"h", "o", "l", "a">>)],
   [user |-> JsNull, msg |-> Opt(<<"h", "o", "l", "a">>)],
   [user |-> Undefined, msg |-> Opt(<<"$", "&">>)],
   [user |-> JsNumber(7), msg |-> Opt(<<"a", "$", "$", "b">>)],
   [uniqueId |-> Opt(<<"x">>)],
   [a |-> Opt(<<"{", "b", "}">>), b |-> Opt(<<"y">>)],
   [a |-> JsNull, c |-> Opt(<<"$", "&">>)],
   [b |-> Opt(<<"a", ".", "c">>)]}

\* options and messages of the cleaner
CleanerOptionSets ==
  {DefaultCleanerOptions,
   [minRepetitions |-> 3, maxLength |-> 8, caseSensitive |-> FALSE],
   [minRepetitions |-> 3, maxLength |-> 2, caseSensitive |-> FALSE],
   [minRepetitions |-> 2, maxLength |-> 12, caseSensitive |-> TRUE],
   [minRepetitions |-> 4, maxLength |-> 15, caseSensitive |-> FALSE]}

CleanTexts ==
  {<<>>,
   <<"h", "o", "l", "a">>,
   <<" ", " ", "h", "o", "l", "a", " ", " ", "m", "u", "n", "d", "o", " ">>,
   <<"h", "o", "l", "a", "a", "a", "a">>,
   <<"a", "b", "c", "d", "e", "f", "g", "h", "i", "j">>,
   <<"a", "b", "c", "d", "e", "f", "g", "h">>,
   <<"s", "i", " ", "s", "i", " ", "s", "i", " ", "n", "o">>,
   <<"S", "i", " ", "s", "i", " ", "n", "o">>,
   <<"y", "a", " ", "v", "a", " ", "y", "a", " ", "v", "a", " ", "y", "a", " ", "v", "a">>,
   <<"h", "t", "t", "p", "#", "a", ":", "/", "/", "x">>,
   <<"h", "t", "t", "p", "s", ":", "/", "/", "e", "x", "a", "m", "p", "l", "e", ".", "c", "o", "m">>,
   <<"v", "e", "r", " ", "h", "t", "t", "p", "s", ":", "/", "/", "e", "x", "a", "m", "p", "l", "e", ".", "c", "o", "m", " ", "y", "a">>,
   <<"w", "w", "w", ".", "x", ".", "i", "o">>,
   <<"e", "x", "a", "m", "p", "l", "e", ".", "i", "o">>,
   <<"e", "x", "a", "m", "p", "l", "e", ".", "c", "o", "m", "/", "a", "?", "b">>,
   <<"h", "o", "l", "a", ":", "m", "u", "n", "d", "o">>,
   <<"!", "!", "#", "b", "!">>,
   <<"a", ".", "b", " ", "c">>,
   <<"o", " ", "x", " ", "y", " ", "x", " ", "y", " ", "x", " ", "y", " ", "x", " ", "y", " ", "a", " ", "b", " ", "a", " ", "b">>,
   <<"S", "i", " ", "s", "i", " ", "s", "i", " ", "n", "o", " ", "n", "o">>,
   <<"j", "a", "a", "a", "a", " ", "j", "a", " ", "j", "a", " ", "j", "a">>,
   <<".", ".", ".", " ", ".", ".", ".", " ", ".", ".", ".", " ", "a", "b", "c", "d">>,
   <<"a", "a", "a", "a", " ", "b", "b", "b">>,
   <<"j", "a", "a", "a", " ", "o", "o", "h">>}

(***************************************************************************)
(* State.                                                                  *)
(***************************************************************************)
VARIABLES
  filters,        \* FilterManager.filters
  twin,           \* the table of the same run of operations with every timer sweep omitted
  now,            \* the clock read by new Date() / Date.now()
  disk,           \* content of temp/data/filters.json
  writes,         \* dataStorage.save calls issued and not yet completed
  loadPc,         \* "reading" while loadBackup awaits dataStorage.load, else "idle"
  timerArmed,     \* the interval registered by the constructor
  stopRequested,  \* the owner asked for the sweep to stop (shutdown, test teardown)
  last,           \* the last FilterManager operation, its arguments and result
  verdict,        \* the last checkString call and its result
  webhook,        \* what the /webhook handler did with the last event
  replacer,       \* a ConfigurableReplacer: its config and the last call made on it
  cleaner,        \* a SpamCleaner: its options and the last call made on it
  messageQueue,   \* a MessageQueue: its queue and the last calls made on it
  freshQueue,     \* a second MessageQueue, made to load what the first one saved
  messagesJson    \* temp/data/messages.json and the saves not yet completed

vars == <<filters, twin, now, disk, writes, loadPc, timerArmed, stopRequested, last,
          verdict, webhook, replacer, cleaner, messageQueue, freshQueue, messagesJson>>

NoVerdict == [called |-> FALSE, text |-> <<>>, options |-> DefaultOptions,
              result |-> checkString(<<>>, 0, <<>>, DefaultOptions)]

NoBody == [nickname |-> Undefined, uniqueId |-> Undefined, comment |-> Undefined,
           eventName |-> Undefined]

\* body is the payload of the event and user the name the handler selected
NoEvent == [status |-> "none", emitted |-> FALSE, cleaned |-> <<>>, body |-> NoBody,
            user |-> Undefined]

NoCall == [op |-> "none", input |-> Undefined, data |-> [user |-> Undefined],
           result |-> Undefined, replacementMap |-> <<>>, repeated |-> FALSE]

\* the value of replacer where no ConfigurableReplacer has been constructed
NoReplacer == [config |-> [replacements |-> <<>>, removeBackslashes |-> TRUE], call |-> NoCall]

NoClean == [op |-> "none", message |-> <<>>, options |-> DefaultCleanerOptions,
            result |-> createResult(<<>>, FALSE, 0, Undefined), again |-> FALSE]

\* the record of a call on the queue: returned is the id of the message
\* returned (0 for undefined), ok the boolean and count the number returned
QueueCall(op, isRed, id, returned, ok, count) ==
  [op |-> op, isRed |-> isRed, id |-> id, returned |-> returned, ok |-> ok, count |-> count]

NoQueueCall == QueueCall("none", TRUE, 0, 0, FALSE, 0)

\* new MessageQueue(): uuids counts the ids drawn so far; plain tells that
\* only add and getNextUnread were called on the queue since it was last
\* empty, and served lists the ids that the marking calls of getNextUnread
\* returned since then
NewQueue ==
  [queue |-> <<>>, uuids |-> 0, call |-> NoQueueCall, served |-> <<>>, plain |-> TRUE]

\* the second queue: pc is "none" before it is made, "new" once made,
\* "reading" while its loadBackup awaits dataStorage.load and "loaded"
\* after; synced tells that the first queue was not modified since then
NoQueue == [pc |-> "none", queue |-> <<>>, synced |-> FALSE]

NoMessages == [file |-> NoFile, writes |-> <<>>]

Op(op, id, ok) ==
  [op |-> op, id |-> id, ok |-> ok, items |-> <<>>, ttl |-> NullTtl, arg |-> UndefinedBool]

Init ==
  /\ filters = <<>>
  /\ twin = <<>>
  /\ now = 1
  /\ disk \in {NoFile, Malformed, Stored(stringify(PriorTable))}
  /\ writes = <<>>
  /\ loadPc = "reading"
  /\ timerArmed = TRUE
  /\ stopRequested = FALSE
  /\ last = Op("constructor", "", TRUE)
  /\ verdict = NoVerdict
  /\ webhook = NoEvent
  /\ replacer = NoReplacer
  /\ cleaner = [options |-> DefaultCleanerOptions, call |-> NoClean]
  /\ messageQueue = NewQueue
  /\ freshQueue = NoQueue
  /\ messagesJson = NoMessages

WithinBounds(fs) == Len(fs) <= MaxFilters

\* faulty variant: the table as it stood before the change is written
saveFiltersBefore(fs) == writes' = Append(writes, stringify(filters))

\* saveFilters(): dataStorage.save('data', this.filters), not awaited
saveFilters(fs) == writes' = Append(writes, stringify(fs))

\* The storage finishes the write in flight before the next call on the
\* manager; only the continuation of loadBackup can run while a write is
\* still in flight.
StorageIdle == writes = <<>>

\* the part of every mutation that is the same: new table, save on success
Mutate(newFs, newTwin, ok, rec) ==
  /\ StorageIdle
  /\ WithinBounds(newFs)
  /\ filters' = newFs
  /\ twin' = newTwin
  /\ IF ok THEN saveFilters(newFs) ELSE UNCHANGED writes
  /\ last' = rec
  /\ verdict' = NoVerdict
  /\ UNCHANGED <<now, disk, loadPc, timerArmed, stopRequested, webhook, replacer, cleaner, messageQueue, freshQueue, messagesJson>>

Found(id) == findIndex(filters, id) # 0

CreateFilter ==
  \E bl \in DenyListArgs, wl \in AllowListArgs :
    Mutate(createFilterTbl(filters, bl, wl, now), createFilterTbl(twin, bl, wl, now),
           TRUE, Op("createFilter", "default", TRUE))

UpdateFilter ==
  \E id \in Ids, bl \in {Undefined, Opt(<<sUpB, sBPad>>)}, wl \in {Undefined, Opt(<<>>)} :
    Mutate(updateFilterTbl(filters, id, bl, wl, now), updateFilterTbl(twin, id, bl, wl, now),
           Found(id), Op("updateFilter", id, Found(id)))

AddToBlackList ==
  \E id \in Ids, item \in DenyArgs, ttl \in Ttls :
    Mutate(addToBlackListTbl(filters, id, <<item>>, ttl, now),
           addToBlackListTbl(twin, id, <<item>>, ttl, now),
           Found(id),
           [Op("addToBlackList", id, Found(id)) EXCEPT !.items = <<item>>, !.ttl = ttl])

AddToWhiteList ==
  \E id \in Ids, item \in AllowArgs :
    Mutate(addToWhiteListTbl(filters, id, <<item>>, now),
           addToWhiteListTbl(twin, id, <<item>>, now),
           Found(id),
           [Op("addToWhiteList", id, Found(id)) EXCEPT !.items = <<item>>])

RemoveFromBlackList ==
  \E id \in Ids, item \in RemoveArgs :
    Mutate(removeFromBlackListTbl(filters, id, <<item>>, now),
           removeFromBlackListTbl(twin, id, <<item>>, now),
           Found(id),
           [Op("removeFromBlackList", id, Found(id)) EXCEPT !.items = <<item>>])

RemoveFromWhiteList ==
  \E id \in Ids, item \in AllowArgs :
    Mutate(removeFromWhiteListTbl(filters, id, <<item>>, now),
           removeFromWhiteListTbl(twin, id, <<item>>, now),
           Found(id),
           [Op("removeFromWhiteList", id, Found(id)) EXCEPT !.items = <<item>>])

ToggleFilter ==
  \E id \in Ids, isActive \in {UndefinedBool, Opt(TRUE), Opt(FALSE)} :
    Mutate(toggleFilterTbl(filters, id, isActive, now),
           toggleFilterTbl(twin, id, isActive, now),
           Found(id),
           [Op("toggleFilter", id, Found(id)) EXCEPT
              !.arg = isActive])

DeleteFilter ==
  \E id \in Ids :
    Mutate(deleteFilterTbl(filters, id), deleteFilterTbl(twin, id),
           Found(id), Op("deleteFilter", id, Found(id)))

\* addItemsToBlacklist(filterId, items), the exported function, called
\* without expiresInSeconds
AddItemsToBlacklist ==
  \E filterId \in Ids, items \in ItemLists :
    Mutate(addToBlackListTbl(filters, filterId, items, NullTtl, now),
           addToBlackListTbl(twin, filterId, items, NullTtl, now),
           Found(filterId),
           [Op("addItemsToBlacklist", filterId, Found(filterId)) EXCEPT !.items = items])

\* faulty variant: the table is saved whether or not an entry was removed
cleanExpiredBlacklistItemsSaving(fs) ==
  /\ filters' = cleanExpiredTbl(fs, now)
  /\ saveFilters(cleanExpiredTbl(fs, now))

\* cleanExpiredBlacklistItems(), as run by the interval and by loadBackup
cleanExpiredBlacklistItems(fs) ==
  /\ filters' = cleanExpiredTbl(fs, now)
  /\ IF cleanExpiredChanged(fs, now)
     THEN saveFilters(cleanExpiredTbl(fs, now))
     ELSE UNCHANGED writes

SweepRun ==
  /\ timerArmed
  /\ StorageIdle
  /\ cleanExpiredBlacklistItems(filters)
  /\ last' = Op("sweep", "", cleanExpiredChanged(filters, now))
  /\ verdict' = NoVerdict
  /\ UNCHANGED <<now, disk, loadPc, timerArmed, stopRequested, webhook, replacer, cleaner, messageQueue, freshQueue, messagesJson>>

\* the interval callback: setInterval(() => this.cleanExpiredBlacklistItems(), ...)
TimerSweep ==
  /\ SweepRun
  /\ twin' = cleanExpiredTbl(twin, now)

\* a sweep run that the twin run omits
SweepInserted ==
  /\ SweepRun
  /\ UNCHANGED twin

\* the owner wants the sweep stopped; FilterManager has no operation that
\* clears the interval, and the handle returned by setInterval is dropped
StopRequest ==
  /\ ~stopRequested
  /\ stopRequested' = TRUE
  /\ UNCHANGED <<filters, twin, now, disk, writes, loadPc, timerArmed, last, verdict, webhook, replacer, cleaner, messageQueue, freshQueue, messagesJson>>

\* faulty variant: the catch block leaves the table as it is
LoadBackupFinishKeep ==
  /\ loadPc = "reading"
  /\ loadPc' = "idle"
  /\ CASE disk.kind = "corrupt" ->
            UNCHANGED <<filters, writes>>
       [] disk.kind = "none" ->
            UNCHANGED <<filters, writes>>
       [] disk.kind = "data" ->
            cleanExpiredBlacklistItems(rehydrate(disk.data))
  /\ twin' = filters'
  /\ last' = Op("loadBackup", "", disk.kind # "corrupt")
  /\ verdict' = NoVerdict
  /\ UNCHANGED <<now, disk, timerArmed, stopRequested, webhook, replacer, cleaner, messageQueue, freshQueue, messagesJson>>

\* loadBackup from the point where dataStorage.load settles: a rejected load
\* or a value that data.map cannot walk ends in the catch block
LoadBackupFinish ==
  /\ loadPc = "reading"
  /\ loadPc' = "idle"
  /\ CASE disk.kind = "corrupt" ->
            /\ filters' = <<>>
            /\ UNCHANGED writes
       [] disk.kind = "none" ->
            UNCHANGED <<filters, writes>>
       [] disk.kind = "data" ->
            cleanExpiredBlacklistItems(rehydrate(disk.data))
  /\ twin' = filters'
  /\ last' = Op("loadBackup", "", disk.kind # "corrupt")
  /\ verdict' = NoVerdict
  /\ UNCHANGED <<now, disk, timerArmed, stopRequested, webhook, replacer, cleaner, messageQueue, freshQueue, messagesJson>>

WriteComplete ==
  /\ writes # <<>>
  /\ disk' = Stored(Head(writes))
  /\ writes' = Tail(writes)
  /\ UNCHANGED <<filters, twin, now, loadPc, timerArmed, stopRequested, last, verdict, webhook, replacer, cleaner, messageQueue, freshQueue, messagesJson>>

\* the clock; the disk read of loadBackup takes less than one clock unit
Tick ==
  /\ loadPc = "idle"
  /\ StorageIdle
  /\ now < MaxTime
  /\ now' = now + 1
  /\ last' = Op("tick", "", TRUE)
  /\ verdict' = NoVerdict
  /\ UNCHANGED <<filters, twin, disk, writes, loadPc, timerArmed, stopRequested, webhook, replacer, cleaner, messageQueue, freshQueue, messagesJson>>

CheckString ==
  \E text \in CheckTexts, o \in CheckOptions :
    /\ StorageIdle
    /\ verdict' = [called |-> TRUE, text |-> text, options |-> o,
                   result |-> checkString(filters, now, text, o)]
    /\ last' = Op("checkString", "", TRUE)
    /\ UNCHANGED <<filters, twin, now, disk, writes, loadPc, timerArmed, stopRequested, webhook, replacer, cleaner, messageQueue, freshQueue, messagesJson>>

\* app.post('/webhook'): from the parsed body to emitter.emit('text', cleaned)
Webhook ==
  \E body \in Bodies :
    /\ webhook' = IF webhookIgnores(filters, now, body)
                  THEN [status |-> "ignored", emitted |-> FALSE, cleaned |-> <<>>,
                        body |-> body, user |-> contentTEXT(processIaResponse(body)).user]
                  ELSE [status |-> "ok", emitted |-> TRUE,
                        cleaned |-> quickClean(webhookCleanText(body)),
                        body |-> body, user |-> contentTEXT(processIaResponse(body)).user]
    /\ UNCHANGED <<filters, twin, now, disk, writes, loadPc, timerArmed, stopRequested, last,
                   verdict, replacer, cleaner, messageQueue, freshQueue, messagesJson>>


\* the record of a call on the replacer; repeated tells that the call before
\* it was the same call
Called(op, input, data, r) ==
  [op |-> op, input |-> input, data |-> data, result |-> r.result,
   replacementMap |-> r.replacementMap,
   repeated |-> /\ replacer.call.op = op
                /\ replacer.call.input = input
                /\ replacer.call.data = data]

\* faulty variant: the values of a call are kept as the defaults of the patterns
ReplaceCaching ==
  \E input \in ReplaceInputs, data \in ReplaceData :
    /\ replacer' =
         [config |->
            [replacer.config EXCEPT !.replacements =
               [k \in 1..Len(@) |->
                  [pattern |-> @[k].pattern, dataKey |-> @[k].dataKey,
                   defaultValue |-> replaceValue(data, @[k])]]],
          call |-> Called("replace", input, data,
                          [result |-> replace(input, data, replacer.config),
                           replacementMap |-> <<>>])]
    /\ UNCHANGED <<filters, twin, now, disk, writes, loadPc, timerArmed, stopRequested, last,
                   verdict, webhook, cleaner, messageQueue, freshQueue, messagesJson>>

\* replacer.replace(input, data)
Replace ==
  \E input \in ReplaceInputs, data \in ReplaceData :
    /\ replacer' =
         [replacer EXCEPT !.call =
            Called("replace", input, data,
                   [result |-> replace(input, data, replacer.config),
                    replacementMap |-> <<>>])]
    /\ UNCHANGED <<filters, twin, now, disk, writes, loadPc, timerArmed, stopRequested, last,
                   verdict, webhook, cleaner, messageQueue, freshQueue, messagesJson>>

\* replacer.replaceWithTracking(input, data)
ReplaceWithTracking ==
  \E input \in ReplaceInputs, data \in ReplaceData :
    /\ replacer' =
         [replacer EXCEPT !.call =
            Called("replaceWithTracking", input, data,
                   replaceWithTracking(input, data, replacer.config))]
    /\ UNCHANGED <<filters, twin, now, disk, writes, loadPc, timerArmed, stopRequested, last,
                   verdict, webhook, cleaner, messageQueue, freshQueue, messagesJson>>

\* cleaner.clean(message); again tells that the message is the cleaned text
\* of the call before it, made under the same options
Clean ==
  \E message \in CleanTexts \cup {cleaner.call.result.cleaned} :
    /\ cleaner' =
         [cleaner EXCEPT !.call =
            [op |-> "clean", message |-> message, options |-> cleaner.options,
             result |-> clean(message, cleaner.options),
             again |-> /\ cleaner.call.op = "clean"
                       /\ cleaner.call.options = cleaner.options
                       /\ cleaner.call.result.cleaned = message]]
    /\ UNCHANGED <<filters, twin, now, disk, writes, loadPc, timerArmed, stopRequested, last,
                   verdict, webhook, replacer, messageQueue, freshQueue, messagesJson>>

\* cleaner.updateOptions(newOptions)
UpdateOptions ==
  \E newOptions \in CleanerOptionSets :
    /\ newOptions # cleaner.options
    /\ cleaner' = [cleaner EXCEPT !.options = newOptions]
    /\ UNCHANGED <<filters, twin, now, disk, writes, loadPc, timerArmed, stopRequested, last,
                   verdict, webhook, replacer, messageQueue, freshQueue, messagesJson>>

\* dataStorage.save('data', queue), not awaited
saveQueue(queue) ==
  messagesJson' = [messagesJson EXCEPT !.writes = Append(@, stringifyQueue(queue))]

\* the part every call on the first queue has in common; the storage
\* finishes the write in flight before the next call on that queue
Calls(queue, uuids, call, served, plain, saved) ==
  /\ messagesJson.writes = <<>>
  /\ messageQueue' = [queue |-> queue, uuids |-> uuids, call |-> call,
                      served |-> IF plain THEN served ELSE <<>>, plain |-> plain]
  /\ IF saved THEN saveQueue(queue) ELSE UNCHANGED messagesJson
  /\ freshQueue' = IF saved THEN [freshQueue EXCEPT !.synced = FALSE] ELSE freshQueue
  /\ UNCHANGED <<filters, twin, now, disk, writes, loadPc, timerArmed, stopRequested, last,
                 verdict, webhook, replacer, cleaner>>

\* faulty variant: an id carried by the payload is kept
AddKeepingId ==
  \E message \in Payloads :
    /\ messageQueue.uuids < MaxMessages
    /\ LET uuid == IF message.id # 0 THEN message.id ELSE messageQueue.uuids + 1
       IN Calls(add(messageQueue.queue, message, uuid, now), messageQueue.uuids + 1,
                QueueCall("add", TRUE, 0, uuid, TRUE, 0),
                messageQueue.served, messageQueue.plain, TRUE)

\* messageQueue.add(message); crypto.randomUUID() draws an id never drawn
\* before
Add ==
  \E message \in Payloads :
    /\ messageQueue.uuids < MaxMessages
    /\ LET uuid == messageQueue.uuids + 1
       IN Calls(add(messageQueue.queue, message, uuid, now), uuid,
                QueueCall("add", TRUE, 0, uuid, TRUE, 0),
                messageQueue.served, messageQueue.plain, TRUE)

\* messageQueue.getNextUnread(isRed)
GetNextUnread ==
  \E isRed \in BOOLEAN :
    LET r == getNextUnread(messageQueue.queue, isRed, now)
        returned == IF r.msg = 0 THEN 0 ELSE r.queue[r.msg].id
    IN Calls(r.queue, messageQueue.uuids,
             QueueCall("getNextUnread", isRed, 0, returned, r.msg # 0, 0),
             IF isRed /\ r.msg # 0 THEN Append(messageQueue.served, returned)
             ELSE messageQueue.served,
             messageQueue.plain, TRUE)

\* messageQueue.markAsRead(id)
MarkAsRead ==
  \E id \in MessageIds :
    LET r == markAsRead(messageQueue.queue, id, now)
    IN Calls(r.queue, messageQueue.uuids, QueueCall("markAsRead", TRUE, id, 0, r.ok, 0),
             messageQueue.served, FALSE, r.ok)

\* messageQueue.markAllAsRead()
MarkAllAsRead ==
  LET r == markAllAsRead(messageQueue.queue, now)
  IN Calls(r.queue, messageQueue.uuids, QueueCall("markAllAsRead", TRUE, 0, 0, TRUE, r.count),
           messageQueue.served, FALSE, TRUE)

\* messageQueue.clear(): this.queue.length = 0; dataStorage.save('data', [])
ClearQueue ==
  Calls(<<>>, messageQueue.uuids, QueueCall("clear", TRUE, 0, 0, TRUE, 0), <<>>, TRUE, TRUE)

\* const freshQueue = new MessageQueue()
NewFreshQueue ==
  /\ freshQueue.pc # "reading"
  /\ freshQueue' = [pc |-> "new", queue |-> <<>>, synced |-> FALSE]
  /\ UNCHANGED <<filters, twin, now, disk, writes, loadPc, timerArmed, stopRequested, last,
                 verdict, webhook, replacer, cleaner, messageQueue, messagesJson>>

\* freshQueue.loadBackup() up to the await of dataStorage.load('data')
QueueLoadBackup ==
  /\ freshQueue.pc \in {"new", "loaded"}
  /\ freshQueue' = [freshQueue EXCEPT !.pc = "reading", !.synced = TRUE]
  /\ UNCHANGED <<filters, twin, now, disk, writes, loadPc, timerArmed, stopRequested, last,
                 verdict, webhook, replacer, cleaner, messageQueue, messagesJson>>

\* loadBackup from the point where dataStorage.load settles: if (data)
\* this.queue = data, with no file there is no data; the parsed JSON is
\* taken as it is
QueueLoadBackupFinish ==
  /\ freshQueue.pc = "reading"
  /\ freshQueue' = [freshQueue EXCEPT
                      !.pc = "loaded",
                      !.queue = IF messagesJson.file.kind = "data"
                                THEN messagesJson.file.data ELSE @]
  /\ UNCHANGED <<filters, twin, now, disk, writes, loadPc, timerArmed, stopRequested, last,
                 verdict, webhook, replacer, cleaner, messageQueue, messagesJson>>

\* the storage completes the oldest save of the queue
QueueWriteComplete ==
  /\ messagesJson.writes # <<>>
  /\ messagesJson' = [file |-> Stored(Head(messagesJson.writes)),
                      writes |-> Tail(messagesJson.writes)]
  /\ UNCHANGED <<filters, twin, now, disk, writes, loadPc, timerArmed, stopRequested, last,
                 verdict, webhook, replacer, cleaner, messageQueue, freshQueue>>
Mutation ==
  \/ CreateFilter
  \/ UpdateFilter
  \/ AddToBlackList
  \/ AddToWhiteList
  \/ RemoveFromBlackList
  \/ RemoveFromWhiteList
  \/ ToggleFilter
  \/ DeleteFilter

Next ==
  \/ CreateFilter
  \/ UpdateFilter
  \/ AddToBlackList
  \/ AddToWhiteList
  \/ RemoveFromBlackList
  \/ RemoveFromWhiteList
  \/ ToggleFilter
  \/ DeleteFilter
  \/ TimerSweep
  \/ LoadBackupFinish
  \/ WriteComplete
  \/ Tick
  \/ CheckString

Spec == Init /\ [][Next]_vars

\* the run with sweeps inserted at arbitrary points, next to the twin run without them
NextTwin ==
  \/ Mutation
  \/ SweepInserted
  \/ LoadBackupFinish
  \/ WriteComplete
  \/ Tick
  \/ CheckString

SpecTwin == Init /\ [][NextTwin]_vars

\* the manager together with an owner that wants the sweep stopped
NextTimer ==
  \/ Mutation
  \/ TimerSweep
  \/ StopRequest
  \/ LoadBackupFinish
  \/ WriteComplete
  \/ Tick
  \/ CheckString

SpecTimer == Init /\ [][NextTimer]_vars

\* index.ts at import: const myFilter = filterManager.createFilter();
\* addItemsToBlacklist(filterId, ['palabra-prohibida-permanente'])
InitApp ==
  LET created == createFilterTbl(<<>>, <<>>, <<>>, 1)
      listed == addToBlackListTbl(created, "default", <<tProhibida>>, NullTtl, 1)
  IN /\ filters = listed
     /\ twin = listed
     /\ now = 1
     /\ disk \in {NoFile, Malformed, Stored(stringify(PriorTable))}
     /\ writes = <<stringify(created), stringify(listed)>>
     /\ loadPc = "reading"
     /\ timerArmed = TRUE
     /\ stopRequested = FALSE
     /\ last = [Op("addToBlackList", "default", TRUE) EXCEPT !.items = <<tProhibida>>]
     /\ verdict = NoVerdict
     /\ webhook = NoEvent
     /\ replacer = [config |-> DefaultConfig, call |-> NoCall]
     /\ cleaner = [options |-> DefaultCleanerOptions, call |-> NoClean]
     /\ messageQueue = NewQueue
     /\ freshQueue = NoQueue
     /\ messagesJson = NoMessages

\* the server: events arrive while the load, the writes and the sweep go on
NextApp ==
  \/ Webhook
  \/ TimerSweep
  \/ LoadBackupFinish
  \/ WriteComplete
  \/ Tick

SpecApp == InitApp /\ [][NextApp]_vars

\* a replacer of either configuration on its own: calls of replace and
\* replaceWithTracking in any order
InitReplacer ==
  /\ filters = <<>>
  /\ twin = <<>>
  /\ now = 1
  /\ disk = NoFile
  /\ writes = <<>>
  /\ loadPc = "reading"
  /\ timerArmed = TRUE
  /\ stopRequested = FALSE
  /\ last = Op("constructor", "", TRUE)
  /\ verdict = NoVerdict
  /\ webhook = NoEvent
  /\ replacer \in [config : Configs, call : {NoCall}]
  /\ cleaner = [options |-> DefaultCleanerOptions, call |-> NoClean]
  /\ messageQueue = NewQueue
  /\ freshQueue = NoQueue
  /\ messagesJson = NoMessages

NextReplacer ==
  \/ Replace
  \/ ReplaceWithTracking

SpecReplacer == InitReplacer /\ [][NextReplacer]_vars

\* a cleaner on its own: new SpamCleaner(options), then calls of clean and
\* updateOptions in any order
InitCleaner ==
  /\ filters = <<>>
  /\ twin = <<>>
  /\ now = 1
  /\ disk = NoFile
  /\ writes = <<>>
  /\ loadPc = "reading"
  /\ timerArmed = TRUE
  /\ stopRequested = FALSE
  /\ last = Op("constructor", "", TRUE)
  /\ verdict = NoVerdict
  /\ webhook = NoEvent
  /\ replacer = NoReplacer
  /\ cleaner \in [options : CleanerOptionSets, call : {NoClean}]
  /\ messageQueue = NewQueue
  /\ freshQueue = NoQueue
  /\ messagesJson = NoMessages

NextCleaner ==
  \/ Clean
  \/ UpdateOptions

SpecCleaner == InitCleaner /\ [][NextCleaner]_vars

\* a manager started on a table of an earlier run: the load, the clock, the
\* sweep of the interval and checks, with no mutation
InitSweep ==
  /\ filters = <<>>
  /\ twin = <<>>
  /\ now = 1
  /\ disk \in {Stored(stringify(t)) : t \in SweepTables}
  /\ writes = <<>>
  /\ loadPc = "reading"
  /\ timerArmed = TRUE
  /\ stopRequested = FALSE
  /\ last = Op("constructor", "", TRUE)
  /\ verdict = NoVerdict
  /\ webhook = NoEvent
  /\ replacer = NoReplacer
  /\ cleaner = [options |-> DefaultCleanerOptions, call |-> NoClean]
  /\ messageQueue = NewQueue
  /\ freshQueue = NoQueue
  /\ messagesJson = NoMessages

NextSweep ==
  \/ TimerSweep
  \/ LoadBackupFinish
  \/ WriteComplete
  \/ Tick
  \/ CheckString

SpecSweep == InitSweep /\ [][NextSweep]_vars

\* a manager started on a table of an earlier run, with filter sets created
\* and deleted and items added through the exported function
NextTable ==
  \/ CreateFilter
  \/ DeleteFilter
  \/ AddItemsToBlacklist
  \/ LoadBackupFinish
  \/ WriteComplete
  \/ CheckString

SpecTable == InitSweep /\ [][NextTable]_vars

\* a queue made in a directory without messages.json, the calls on it and
\* the clock
InitQueue ==
  /\ filters = <<>>
  /\ twin = <<>>
  /\ now = 1
  /\ disk = NoFile
  /\ writes = <<>>
  /\ loadPc = "idle"
  /\ timerArmed = TRUE
  /\ stopRequested = FALSE
  /\ last = Op("loadBackup", "", TRUE)
  /\ verdict = NoVerdict
  /\ webhook = NoEvent
  /\ replacer = NoReplacer
  /\ cleaner = [options |-> DefaultCleanerOptions, call |-> NoClean]
  /\ messageQueue = NewQueue
  /\ freshQueue = NoQueue
  /\ messagesJson = NoMessages

NextQueue ==
  \/ Add
  \/ GetNextUnread
  \/ MarkAsRead
  \/ MarkAllAsRead
  \/ ClearQueue
  \/ QueueWriteComplete
  \/ Tick

SpecQueue == InitQueue /\ [][NextQueue]_vars

\* the queue and a second one that loads what the first one saved
NextBackup ==
  \/ Add
  \/ GetNextUnread
  \/ ClearQueue
  \/ QueueWriteComplete
  \/ NewFreshQueue
  \/ QueueLoadBackup
  \/ QueueLoadBackupFinish

SpecBackup == InitQueue /\ [][NextBackup]_vars

(***************************************************************************)
(* Properties.  The properties of checkString are stated for the table and *)
(* the time of every call of checkString, and there for every text of      *)
(* Texts and every combination of options.                                 *)
(***************************************************************************)
MutationOps == {"createFilter", "updateFilter", "addToBlackList", "addToWhiteList",
                "removeFromBlackList", "removeFromWhiteList", "toggleFilter", "deleteFilter"}

\* the comparison of the classifier's contract, stated on its own:
\* exactMatch is equality, otherwise partialMatch is containment
Normalized(s, o) == IF o.caseSensitive THEN s ELSE toLowerCase(s)

Contained(s, sub) ==
  \E lo \in 1..(Len(s) + 1) : \E hi \in (lo - 1)..Len(s) :
     /\ hi - lo + 1 = Len(sub)
     /\ \A k \in 1..Len(sub) : s[lo + k - 1] = sub[k]

ModeMatch(text, entry, o) ==
  IF o.exactMatch THEN Normalized(text, o) = Normalized(entry, o)
  ELSE o.partialMatch /\ Contained(Normalized(text, o), Normalized(entry, o))

AllowMatch(fs, text, o) ==
  \E i \in 1..Len(fs) : /\ fs[i].isActive
                        /\ \E k \in 1..Len(fs[i].whiteList) : ModeMatch(text, fs[i].whiteList[k], o)

Expired(e, t) == e.obj /\ e.expiresAt # NullDate /\ e.expiresAt < t

DenyMatch(fs, t, text, o) ==
  \E i \in 1..Len(fs) : /\ fs[i].isActive
                        /\ \E k \in 1..Len(fs[i].blackList) :
                             /\ ~Expired(fs[i].blackList[k], t)
                             /\ ModeMatch(text, trim(fs[i].blackList[k].item), o)

C3_ExpiredEntriesAreInert ==
  verdict.called =>
  \A text \in Texts, o \in AllOptions :
    LET r == checkString(filters, now, text, o)
    IN /\ \A k \in 1..Len(r.matchedBlackList) : ~Expired(r.matchedBlackList[k], now)
       /\ r = checkString([i \in 1..Len(filters) |->
                             [filters[i] EXCEPT !.blackList =
                                SelectSeq(@, LAMBDA e : ~Expired(e, now))]],
                          now, text, o)

\* a check was made while an active filter set held an expired entry whose
\* text the checked text contains
C3_Witness ==
  /\ verdict.called
  /\ \E i \in 1..Len(filters) :
       /\ filters[i].isActive
       /\ \E k \in 1..Len(filters[i].blackList) :
            /\ Expired(filters[i].blackList[k], now)
            /\ ModeMatch(verdict.text, trim(filters[i].blackList[k].item), verdict.options)

\* C5: when no allow entry of an active filter set matches, the verdict is
\* blocked with reason "blacklist" exactly when a non-expired deny entry of an
\* active filter set matches under the comparison mode, and otherwise allowed
\* with reason "none".
C5_DenyVerdict ==
  verdict.called =>
  \A text \in Texts, o \in AllOptions :
    ~AllowMatch(filters, text, o) =>
      LET r == checkString(filters, now, text, o)
      IN IF DenyMatch(filters, now, text, o)
         THEN ~r.isAllowed /\ r.isBlocked /\ r.reason = "blacklist"
         ELSE r.isAllowed /\ ~r.isBlocked /\ r.reason = "none"

\* a check without allow match was blocked by a deny entry
C5_Witness ==
  /\ verdict.called
  /\ ~AllowMatch(filters, verdict.text, verdict.options)
  /\ DenyMatch(filters, now, verdict.text, verdict.options)
  /\ verdict.result.reason = "blacklist"

\* C2: right after addToBlackList(id, [item], t) with t > 0 has succeeded on
\* an active filter set, whatever the deny list held before, the item is a
\* deny match of checkString at every time before t has elapsed, is not
\* matched through the new entry after t has elapsed, and the new entry is
\* not in the deny list after a sweep that runs after expiry.
C2_Original ==
  (/\ last.op = "addToBlackList"
   /\ last.ok
   /\ last.ttl > 0
   /\ filters[findIndex(filters, last.id)].isActive)
  =>
  LET i == findIndex(filters, last.id)
      item == trim(last.items[1])
      expiry == now + last.ttl
      isNew(e) == e.obj /\ e.expiresAt = expiry /\ trim(e.item) = item
  IN /\ \A u \in now..(expiry - 1) :
          LET m == checkString(filters, u, item, DefaultOptions).matchedBlackList
          IN \E k \in 1..Len(m) : trim(m[k].item) = item
     /\ \A u \in (expiry + 1)..(expiry + 2) :
          /\ LET m == checkString(filters, u, item, DefaultOptions).matchedBlackList
             IN \A k \in 1..Len(m) : ~isNew(m[k])
          /\ LET swept == cleanExpiredTbl(filters, u)[i].blackList
             IN \A k \in 1..Len(swept) : ~isNew(swept[k])

\* C4: the run in which sweeps are inserted at arbitrary points and the run
\* of the same mutations, clock advances and checks without them give the
\* same verdict to every check.
C4_Original ==
  \A text \in Texts, o \in AllOptions :
    LET r == checkString(filters, now, text, o)
        q == checkString(twin, now, text, o)
    IN r.isAllowed = q.isAllowed /\ r.isBlocked = q.isBlocked /\ r.reason = q.reason

\* C7: no deny list of any filter set holds two entries whose trimmed text
\* is equal.
C7_Original ==
  \A i \in 1..Len(filters) :
    \A j, k \in 1..Len(filters[i].blackList) :
      j # k => trim(filters[i].blackList[j].item) # trim(filters[i].blackList[k].item)

\* the table with every entry of its inactive filter sets removed
withoutInactiveEntries(fs) ==
  [i \in 1..Len(fs) |->
     IF fs[i].isActive THEN fs[i]
     ELSE [fs[i] EXCEPT !.blackList = <<>>, !.whiteList = <<>>]]

\* the table with an entry for the text added to each list of every inactive set
withInactiveEntries(fs, text) ==
  [i \in 1..Len(fs) |->
     IF fs[i].isActive THEN fs[i]
     ELSE [fs[i] EXCEPT !.blackList = Append(@, Perm(text)),
                        !.whiteList = Append(@, text)]]

C8_InactiveIgnored ==
  verdict.called =>
  \A text \in Texts, o \in AllOptions :
    LET r == checkString(filters, now, text, o)
    IN /\ r = checkString(withoutInactiveEntries(filters), now, text, o)
       /\ r = checkString(withInactiveEntries(filters, text), now, text, o)

C8_ToggleStep ==
  \A id \in Ids, isActive \in {UndefinedBool, Opt(TRUE), Opt(FALSE)} :
    (/\ Found(id)
     /\ last' = [Op("toggleFilter", id, TRUE) EXCEPT !.arg = isActive]
     /\ writes' = Append(writes, stringify(filters')))
    =>
    LET i == findIndex(filters, id)
    IN filters'[i].isActive =
         (IF isActive = Opt(TRUE) THEN TRUE
          ELSE IF isActive = Opt(FALSE) THEN FALSE
          ELSE ~filters[i].isActive)

\* C8: entries of an inactive filter set contribute no match, so that the
\* verdict is the same with those entries removed or with more of them
\* added; toggleFilter(id, false) makes the set inactive, toggleFilter(id,
\* true) active, and toggleFilter(id) inverts isActive.
C8_OnlyActiveSets == [](C8_InactiveIgnored) /\ [][C8_ToggleStep]_vars

\* a check was made of a text that a deny entry and an allow entry of a set
\* made inactive by toggleFilter would match
C8_Witness ==
  /\ verdict.called
  /\ \E i \in 1..Len(filters) :
       /\ ~filters[i].isActive
       /\ \E k \in 1..Len(filters[i].blackList) :
            ModeMatch(verdict.text, trim(filters[i].blackList[k].item), verdict.options)
       /\ \E k \in 1..Len(filters[i].whiteList) :
            ModeMatch(verdict.text, filters[i].whiteList[k], verdict.options)

C10_Original == ~(stopRequested /\ last.op = "sweep")

\* C6: a text is emitted only when checkString does not block the emitted
\* (cleaned) text against the filter table at the time of the emission.
C6_Original ==
  [][(webhook' # webhook /\ webhook'.emitted) =>
       ~checkString(filters, now, webhook'.cleaned, DefaultOptions).isBlocked]_vars

\* C11: a load that fails is caught and leaves the table empty: right after
\* the failed loadBackup the table has no filter set, from then on it stays
\* empty through every step other than a createFilter, and every checkString
\* on the empty table answers isAllowed = true with reason "none".
C11_FailedLoadEmpties ==
  /\ (last.op = "loadBackup" /\ ~last.ok) => filters = <<>>
  /\ (verdict.called /\ filters = <<>>) =>
       /\ verdict.result.isAllowed
       /\ ~verdict.result.isBlocked
       /\ verdict.result.reason = "none"

C11_EmptyUntilCreated ==
  (loadPc = "idle" /\ filters = <<>> /\ last'.op # "createFilter") => filters' = <<>>

C11_LoadFailureFallsBack == [](C11_FailedLoadEmpties) /\ [][C11_EmptyUntilCreated]_vars

\* the load of a malformed file has failed and a text was checked afterwards
C11_Witness ==
  /\ verdict.called
  /\ loadPc = "idle"
  /\ disk = Malformed
  /\ filters = <<>>

(***************************************************************************)
(* Properties of the replacer, stated for the last call made on it.        *)
(***************************************************************************)
\* the calls whose input is one text
TextCall(op) == replacer.call.op = op /\ kindOf(replacer.call.input) = "string"

\* no substitution value of the call contains the character $
DollarFree ==
  \A k \in 1..Len(replacer.config.replacements) :
    \A j \in 1..Len(replaceValue(replacer.call.data, replacer.config.replacements[k])) :
      replaceValue(replacer.call.data, replacer.config.replacements[k])[j] # "$"

\* a text with a mark on every character that a substitution has inserted
Marked(text, inserted) == [text |-> text, inserted |-> inserted]
Joined(a, b) == Marked(a.text \o b.text, a.inserted \o b.inserted)

\* every occurrence of the pattern among the characters no substitution has
\* inserted is replaced by the value, which is marked as inserted
substituteUnmarked(m, pattern, value) ==
  LET RECURSIVE go(_)
      go(i) ==
        IF i > Len(m.text) THEN Marked(<<>>, <<>>)
        ELSE IF /\ startsWithAt(m.text, i, pattern)
                /\ \A j \in i..(i + Len(pattern) - 1) : ~m.inserted[j]
        THEN Joined(Marked(value, [j \in 1..Len(value) |-> TRUE]), go(i + Len(pattern)))
        ELSE Joined(Marked(<<m.text[i]>>, <<m.inserted[i]>>), go(i + 1))
  IN go(1)

\* the patterns applied in mapping order, one pass each, to the characters
\* of the original text only
substitutedWithoutRescan(text, data, config) ==
  LET RECURSIVE apply(_, _)
      apply(k, m) ==
        IF k > Len(config.replacements) THEN m.text
        ELSE apply(k + 1, substituteUnmarked(m, config.replacements[k].pattern,
                                             replaceValue(data, config.replacements[k])))
  IN IF config.removeBackslashes
     THEN removeBackslashes(apply(1, Marked(text, [j \in 1..Len(text) |-> FALSE])))
     ELSE apply(1, Marked(text, [j \in 1..Len(text) |-> FALSE]))

\* C12: within one replace call the patterns are applied in mapping order and
\* the text inserted for one pattern is never scanned by a later pattern: the
\* output is the text with the patterns replaced among its own characters only.
C12_Original ==
  (TextCall("replace") /\ DollarFree) =>
    replacer.call.result =
      Opt(substitutedWithoutRescan(replacer.call.input.val, replacer.call.data,
                                   replacer.config))

\* the data object with the keys of null value left out
withoutNulls(data) ==
  [k \in DOMAIN data |-> IF kindOf(data[k]) = "null" THEN Undefined ELSE data[k]]

\* C13: the substitution value of a pattern is data[dataKey] as text when the
\* key is present with a value that is neither null nor absent, and the
\* defaultValue otherwise: a null value gives the same output as a missing key.
C13_Original ==
  TextCall("replace") =>
    replacer.call.result =
      Opt(replaceInString(replacer.call.input.val, withoutNulls(replacer.call.data),
                          replacer.config))

\* every occurrence of the pattern replaced by the characters of the value
replacedVerbatim(s, pattern, value) ==
  LET RECURSIVE go(_)
      go(i) == IF i > Len(s) THEN <<>>
               ELSE IF startsWithAt(s, i, pattern) THEN value \o go(i + Len(pattern))
               ELSE <<s[i]>> \o go(i + 1)
  IN go(1)

substitutedVerbatim(text, data, config) ==
  LET RECURSIVE apply(_, _)
      apply(k, t) ==
        IF k > Len(config.replacements) THEN t
        ELSE apply(k + 1, replacedVerbatim(t, config.replacements[k].pattern,
                                           replaceValue(data, config.replacements[k])))
  IN IF config.removeBackslashes THEN removeBackslashes(apply(1, text)) ELSE apply(1, text)

\* C14: every occurrence of a pattern is replaced by exactly the characters
\* of the substitution value, whatever characters the pattern or the value
\* contain.
C14_Original ==
  TextCall("replace") =>
    replacer.call.result =
      Opt(substitutedVerbatim(replacer.call.input.val, replacer.call.data, replacer.config))

\* the text leaves of an input, at any depth
RECURSIVE textLeaves(_)
textLeaves(input) ==
  CASE kindOf(input) = "string" -> {input.val}
    [] kindOf(input) = "array" ->
         UNION {textLeaves(input.items[i]) : i \in 1..Len(input.items)}
    [] kindOf(input) = "object" ->
         UNION {textLeaves(input.entries[i].value) : i \in 1..Len(input.entries)}
    [] OTHER -> {}

\* the patterns, by their place in the mapping, with an occurrence in a leaf
occurringPatterns(input, config) ==
  {k \in 1..Len(config.replacements) :
     \E leaf \in textLeaves(input) : occurs(leaf, config.replacements[k].pattern)}

\* C15: replaceWithTracking records an entry, keyed by the substitution
\* value, for exactly the patterns that occur in a text leaf of the input;
\* of the patterns with the same value the one later in the mapping remains.
C15_Original ==
  replacer.call.op = "replaceWithTracking" =>
    LET m == replacer.call.replacementMap
        rs == replacer.config.replacements
        P == occurringPatterns(replacer.call.input, replacer.config)
        value(k) == replaceValue(replacer.call.data, rs[k])
        latest(v) == Max({k \in P : value(k) = v})
    IN /\ \A i \in 1..Len(m) : \E k \in P : m[i].key = value(k)
       /\ \A i, j \in 1..Len(m) : m[i].key = m[j].key => i = j
       /\ \A k \in P :
            \E i \in 1..Len(m) :
              /\ m[i].key = value(k)
              /\ m[i].value = [original |-> rs[latest(value(k))].pattern,
                               dataKey |-> rs[latest(value(k))].dataKey,
                               replaced |-> value(k)]

\* the input rebuilt with every text leaf substituted: arrays element by
\* element, records value by value under the same keys, all else as it is
RECURSIVE rebuilt(_, _, _)
rebuilt(input, data, config) ==
  CASE kindOf(input) = "string" -> Opt(replaceInString(input.val, data, config))
    [] kindOf(input) = "array" ->
         JsArray([i \in 1..Len(input.items) |-> rebuilt(input.items[i], data, config)])
    [] kindOf(input) = "object" ->
         JsObject([i \in 1..Len(input.entries) |->
                     [key |-> input.entries[i].key,
                      value |-> rebuilt(input.entries[i].value, data, config)]])
    [] OTHER -> input

\* C16: replace preserves the shape of its input: a sequence gives a sequence
\* of the same length, a record a record with the same keys, every text leaf
\* is substituted, and numbers, booleans, null and absent values come back
\* unchanged at any depth.
C16_Original ==
  replacer.call.op = "replace" =>
    replacer.call.result = rebuilt(replacer.call.input, replacer.call.data, replacer.config)

\* C17: no call of replace or replaceWithTracking changes the configuration
\* of the replacer, and a call that repeats the call before it returns the
\* same output and, in tracking mode, the same records.
C17_CallStep ==
  /\ replacer'.config = replacer.config
  /\ replacer'.call.repeated =>
       /\ replacer'.call.result = replacer.call.result
       /\ replacer'.call.replacementMap = replacer.call.replacementMap

wordsOf(x) == IF trim(x) = <<>> THEN <<>> ELSE split(trim(x))

\* no run of one character, of one word or of one phrase of two or more
\* words in x reaches minRepetitions
BelowThreshold(x, o) ==
  /\ \A i \in 1..Len(x) : sameCharRun(x, i) < o.minRepetitions
  /\ \A i \in 1..Len(wordsOf(x)) : wordRepetitions(wordsOf(x), i, o) < o.minRepetitions
  /\ \A n \in 2..Len(wordsOf(x)) :
       \A i \in 0..(Len(wordsOf(x)) - n) :
         phraseRepetitions(wordsOf(x), i, n, o) < o.minRepetitions

\* C18: clean is idempotent on texts below the repetition threshold: cleaning
\* the cleaned text of such a text again, under the same options, gives the
\* same cleaned text (stated for a maxLength that has room for the marker).
C18_Original ==
  [][(/\ cleaner'.call.again
      /\ cleaner.options.maxLength >= 3
      /\ BelowThreshold(cleaner.call.message, cleaner.options)) =>
       cleaner'.call.result.cleaned = cleaner.call.result.cleaned]_vars

\* C19: when the text left by the cleaning passes is longer than maxLength,
\* the cleaned text ends with "..." and is exactly maxLength long; otherwise
\* it is the text left by the passes; it is never longer than maxLength.
C19_Original ==
  (cleaner.call.op = "clean" /\ trim(cleaner.call.message) # <<>>) =>
    LET passed == cascade(cleaner.call.message, cleaner.call.options).cleaned
        cleaned == cleaner.call.result.cleaned
        maxLength == cleaner.call.options.maxLength
    IN /\ Len(passed) > maxLength =>
            /\ Len(cleaned) = maxLength
            /\ Len(cleaned) >= 3
            /\ SubSeq(cleaned, Len(cleaned) - 2, Len(cleaned)) = <<".", ".", ".">>
       /\ Len(passed) <= maxLength => cleaned = passed
       /\ Len(cleaned) <= maxLength

\* C20: clean returns an empty cleaned text for every message that isUrl
\* recognises as a URL.
C20_Original ==
  (cleaner.call.op = "clean" /\ isUrl(cleaner.call.message)) =>
    cleaner.call.result.cleaned = <<>>

\* C26: when addToBlackList(id, [item], ttl) succeeds and the deny list held
\* an entry with the same trimmed text before the call, the one entry with
\* that text after the call carries the expiry of the call: now + ttl for
\* a ttl given, none (permanent) for no ttl.
C26_Original ==
  [][(/\ writes = <<>>
      /\ writes' # <<>>
      /\ last'.op = "addToBlackList"
      /\ last'.ok
      /\ LET before == filters[findIndex(filters, last'.id)].blackList
         IN \E k \in 1..Len(before) : trim(before[k].item) = trim(last'.items[1]))
     =>
     LET after == filters'[findIndex(filters', last'.id)].blackList
         same == {k \in 1..Len(after) : trim(after[k].item) = trim(last'.items[1])}
     IN /\ Cardinality(same) = 1
        /\ \A k \in same :
             after[k].expiresAt = IF Truthy(last'.ttl) THEN now + last'.ttl ELSE NullDate]_vars

\* the deny entries of the active filter sets that are not expired and match
\* the text, in scan order
denyMatches(fs, t, text, o) ==
  Flatten([i \in 1..Len(fs) |->
             IF fs[i].isActive
             THEN SelectSeq(fs[i].blackList,
                            LAMBDA e : ~Expired(e, t) /\ ModeMatch(text, trim(e.item), o))
             ELSE <<>>])

\* C27: in a blocked verdict expirationReason is that of the first deny
\* match, in scan order, that carries an expiry; it is absent when no deny
\* match carries an expiry and in every "whitelist" and "none" verdict.
C27_Original ==
  verdict.called =>
  LET dated == SelectSeq(denyMatches(filters, now, verdict.text, verdict.options),
                         LAMBDA e : e.obj /\ e.expiresAt # NullDate)
  IN verdict.result.expirationReason =
       IF verdict.result.reason = "blacklist" /\ dated # <<>>
       THEN [def |-> TRUE, until |-> dated[1].expiresAt]
       ELSE NoReason

\* a step of the interval's sweep
SweepStep == last'.op = "sweep" /\ last' # last

\* the deny list without the temporary entries whose expiresAt has passed
unexpired(bl, t) == SelectSeq(bl, LAMBDA e : ~Expired(e, t))

\* C28: one sweep run removes from every filter set, active or not, exactly
\* the temporary deny entries whose expiresAt has passed and keeps the other
\* deny entries and every allow entry in their order; it sets updatedAt on
\* the filter sets it removed an entry from and on no other, and it issues
\* one persistence write, of the table it leaves, if it removed an entry
\* and none otherwise.
C28_SweepStep ==
  SweepStep =>
    /\ Len(filters') = Len(filters)
    /\ \A i \in 1..Len(filters) :
         LET removed == unexpired(filters[i].blackList, now) # filters[i].blackList
         IN /\ filters'[i].blackList = unexpired(filters[i].blackList, now)
            /\ filters'[i].whiteList = filters[i].whiteList
            /\ filters'[i].id = filters[i].id
            /\ filters'[i].isActive = filters[i].isActive
            /\ filters'[i].updatedAt = IF removed THEN now ELSE filters[i].updatedAt
    /\ writes' = IF \E i \in 1..Len(filters) :
                      unexpired(filters[i].blackList, now) # filters[i].blackList
                 THEN Append(writes, stringify(filters'))
                 ELSE writes

C28_SweepRemovesExpired == [][C28_SweepStep]_vars

\* a sweep has removed an expired entry from one filter set and has left a
\* permanent entry, an unexpired temporary entry and another filter set as
\* they were
C28_Witness ==
  /\ last.op = "sweep"
  /\ last.ok
  /\ writes # <<>>
  /\ Len(filters) = 2
  /\ filters[1].updatedAt = now
  /\ filters[2].updatedAt # now
  /\ \E k \in 1..Len(filters[1].blackList) : ~filters[1].blackList[k].obj
  /\ \E k \in 1..Len(filters[1].blackList) :
       filters[1].blackList[k].obj /\ filters[1].blackList[k].expiresAt >= now

\* C29: a sweep run made when no entry has expired since the sweep before
\* it changes no deny list and no updatedAt and issues no persistence write.
C29_SecondSweepStep ==
  (/\ SweepStep
   /\ \A i \in 1..Len(filters) : \A k \in 1..Len(filters[i].blackList) :
        ~Expired(filters[i].blackList[k], now))
  => /\ filters' = filters
     /\ writes' = writes
     /\ ~last'.ok

C29_SweepIdempotent == [][C29_SecondSweepStep]_vars

\* a sweep that removed an entry has been followed, after its write was
\* completed, by a sweep that found nothing to remove
C29_Witness ==
  /\ last.op = "sweep"
  /\ ~last.ok
  /\ writes = <<>>
  /\ disk.kind = "data"
  /\ disk.data = stringify(filters)
  /\ \E i \in 1..Len(filters) : filters[i].updatedAt = now /\ now > 1

\* the text with every maximal run of three or more equal characters
\* reduced to two
RECURSIVE collapsedRuns(_)
collapsedRuns(s) ==
  IF s = <<>> THEN <<>>
  ELSE LET n == CHOOSE k \in 1..Len(s) :
                  /\ \A j \in 1..k : s[j] = s[1]
                  /\ (k = Len(s) \/ s[k + 1] # s[1])
       IN (IF n >= 3 THEN <<s[1], s[1]>> ELSE SubSeq(s, 1, n))
          \o collapsedRuns(SubSeq(s, n + 1, Len(s)))

\* the text has a run of equal characters of length n or more
HasRun(s, n) ==
  \E i \in 1..Len(s) : i + n - 1 <= Len(s) /\ \A j \in i..(i + n - 1) : s[j] = s[i]

\* C30: the character pass of clean, on the text it receives: if a run of
\* equal characters has length at least 3 and at least minRepetitions, the
\* result is marked spam and every maximal run of three or more is reduced
\* to two characters; otherwise the text is unchanged and not marked.
C30_Original ==
  (cleaner.call.op = "clean" /\ trim(cleaner.call.message) # <<>>)
  =>
  LET o == cleaner.call.options
      text == cleanUrls(trim(cleaner.call.message))
      r == cleanRepeatedChars(text, o)
      qualifies == HasRun(text, Max({3, o.minRepetitions}))
  IN /\ r.wasSpam = qualifies
     /\ r.cleaned = IF qualifies THEN collapsedRuns(text) ELSE text

\* a call of add was made in this step
AddStep ==
  messageQueue'.call.op = "add" /\ messageQueue'.uuids = messageQueue.uuids + 1

\* C22: add appends one message at the end of the queue, with an id that no
\* message has or had and isRead false, whatever id and isRead the payload
\* carries; size and unreadSize grow by one, every message that was in the
\* queue is unchanged, and the message created is the one returned.
C22_AddStep ==
  AddStep =>
    LET before == messageQueue.queue
        after == messageQueue'.queue
        created == after[Len(after)]
    IN /\ Len(after) = Len(before) + 1
       /\ SubSeq(after, 1, Len(before)) = before
       /\ ~created.isRead
       /\ \A k \in 1..Len(before) : before[k].id # created.id
       /\ created.id \notin 1..messageQueue.uuids
       /\ messageQueue'.call.returned = created.id
       /\ size(after) = size(before) + 1
       /\ unreadSize(after) = unreadSize(before) + 1

C22_AddAppends == [][C22_AddStep]_vars

\* add was called, on a queue that holds the message with id 1, with the
\* payload that carries the id 1 and isRead true
C22_Witness ==
  /\ messageQueue.call.op = "add"
  /\ Len(messageQueue.queue) >= 2
  /\ messageQueue.queue[1].id = 1
  /\ LET created == messageQueue.queue[Len(messageQueue.queue)]
     IN created.content = <<"B">> /\ ~created.isRead /\ created.id # 1

\* a call of the operation was made on the queue in this step
QueueStep(op) == messageQueue' # messageQueue /\ messageQueue'.call.op = op

\* the position of the unread message added earliest, 0 when none is unread
EarliestUnread(queue) ==
  IF \A k \in 1..Len(queue) : queue[k].isRead THEN 0
  ELSE CHOOSE i \in 1..Len(queue) :
         ~queue[i].isRead /\ \A k \in 1..(i - 1) : queue[k].isRead

\* the number of unread messages
UnreadCount(queue) == Cardinality({k \in 1..Len(queue) : ~queue[k].isRead})

\* C21, one call: getNextUnread() returns the unread message added earliest
\* and marks it read; unreadSize falls by one, size and the order of the
\* messages stay, no other message changes; with no unread message it
\* returns nothing.
C21_NextStep ==
  (QueueStep("getNextUnread") /\ messageQueue'.call.isRed) =>
    LET before == messageQueue.queue
        after == messageQueue'.queue
        i == EarliestUnread(before)
    IN IF i = 0
       THEN messageQueue'.call.returned = 0 /\ after = before
       ELSE /\ messageQueue'.call.returned = before[i].id
            /\ Len(after) = Len(before)
            /\ after[i].isRead
            /\ after[i].id = before[i].id /\ after[i].content = before[i].content
            /\ \A k \in 1..Len(before) : k # i => after[k] = before[k]
            /\ unreadSize(after) = unreadSize(before) - 1
            /\ UnreadCount(after) = UnreadCount(before) - 1
            /\ size(after) = size(before)

\* C21, a run of add and getNextUnread calls: the messages returned by
\* getNextUnread() are the first messages of the queue, each once and in
\* the order of addition, the others are unread, and once the call has
\* returned nothing every message added has been returned.
C21_Served ==
  messageQueue.plain =>
    LET queue == messageQueue.queue
        served == messageQueue.served
    IN /\ Len(served) <= Len(queue)
       /\ \A k \in 1..Len(served) : queue[k].id = served[k] /\ queue[k].isRead
       /\ \A k \in (Len(served) + 1)..Len(queue) : ~queue[k].isRead
       /\ \A j, k \in 1..Len(queue) : j < k => queue[j].id < queue[k].id
       /\ (messageQueue.call.op = "getNextUnread" /\ messageQueue.call.returned = 0)
            => Len(served) = Len(queue)

C21_FirstInFirstOut == [](C21_Served) /\ [][C21_NextStep]_vars

\* two messages were added and returned one after the other, and the call
\* after that returned nothing
C21_Witness ==
  /\ messageQueue.plain
  /\ messageQueue.served = <<1, 2>>
  /\ messageQueue.call.op = "getNextUnread"
  /\ messageQueue.call.isRed
  /\ messageQueue.call.returned = 0

\* C23, one call: getNextUnread(false) returns the unread message added
\* earliest and leaves it unread; unreadSize, size, the order of the
\* messages and the read state of every message stay as they were.
C23_PeekStep ==
  (QueueStep("getNextUnread") /\ ~messageQueue'.call.isRed) =>
    LET before == messageQueue.queue
        after == messageQueue'.queue
        i == EarliestUnread(before)
    IN /\ messageQueue'.call.returned = IF i = 0 THEN 0 ELSE before[i].id
       /\ Len(after) = Len(before)
       /\ \A k \in 1..Len(before) :
            /\ after[k].id = before[k].id
            /\ after[k].isRead = before[k].isRead
            /\ after[k].content = before[k].content
       /\ unreadSize(after) = unreadSize(before)

\* C23, consecutive calls: the message that getNextUnread(false) returned
\* is, after the call, still the unread message added earliest, so the
\* next getNextUnread(false) returns it again.
C23_StillNext ==
  (/\ messageQueue.call.op = "getNextUnread"
   /\ ~messageQueue.call.isRed
   /\ messageQueue.call.returned # 0)
  => LET i == EarliestUnread(messageQueue.queue)
     IN /\ i # 0
        /\ messageQueue.queue[i].id = messageQueue.call.returned
        /\ getNextUnread(messageQueue.queue, FALSE, now).msg = i

C23_PeekLeavesUnread == [](C23_StillNext) /\ [][C23_PeekStep]_vars

\* getNextUnread(false) has returned the second message of the queue, the
\* first one being read
C23_Witness ==
  /\ messageQueue.call.op = "getNextUnread"
  /\ ~messageQueue.call.isRed
  /\ Len(messageQueue.queue) = 2
  /\ messageQueue.queue[1].isRead
  /\ ~messageQueue.queue[2].isRead
  /\ messageQueue.call.returned = messageQueue.queue[2].id
  /\ messageQueue.queue[2].readAt # NoDate

\* C24, markAllAsRead: the call returns the number of messages that were
\* unread before it and leaves none unread.
C24_MarkAllStep ==
  QueueStep("markAllAsRead") =>
    LET before == messageQueue.queue
        after == messageQueue'.queue
    IN /\ messageQueue'.call.count = UnreadCount(before)
       /\ unreadSize(after) = 0
       /\ Len(after) = Len(before)
       /\ \A k \in 1..Len(before) :
            after[k].id = before[k].id /\ after[k].content = before[k].content

\* C24, markAsRead(id): with a message of that id in the queue the call
\* returns true, that message is read after it and no other message
\* changes; with none it returns false and no message changes.
C24_MarkStep ==
  QueueStep("markAsRead") =>
    LET before == messageQueue.queue
        after == messageQueue'.queue
        id == messageQueue'.call.id
        holders == {k \in 1..Len(before) : before[k].id = id}
    IN /\ messageQueue'.call.ok = (holders # {})
       /\ Len(after) = Len(before)
       /\ \A k \in 1..Len(before) :
            IF k \in holders
            THEN /\ after[k].isRead
                 /\ after[k].id = id
                 /\ after[k].content = before[k].content
            ELSE after[k] = before[k]
       /\ Cardinality(holders) <= 1

\* C24, every state: the read and the unread messages make up the queue.
C24_Partition ==
  LET queue == messageQueue.queue
  IN /\ Len(getAll(queue, Opt(TRUE))) + Len(getAll(queue, Opt(FALSE))) = size(queue)
     /\ Len(getAll(queue, Opt(FALSE))) = unreadSize(queue)
     /\ getAll(queue, UndefinedBool) = queue
     /\ \A k \in 1..Len(queue) : queue[k].isRead \in BOOLEAN

C24_MarkingCounts == [](C24_Partition) /\ [][C24_MarkStep /\ C24_MarkAllStep]_vars

\* markAsRead was called with the id of the second of two unread messages
C24_Witness ==
  /\ messageQueue.call.op = "markAsRead"
  /\ messageQueue.call.ok
  /\ Len(messageQueue.queue) = 2
  /\ messageQueue.queue[2].id = messageQueue.call.id
  /\ messageQueue.queue[2].isRead
  /\ ~messageQueue.queue[1].isRead

\* C25: a queue just made is empty, and once its loadBackup has completed
\* it holds exactly the messages of the queue that was last modified, also
\* when loadBackup was called right after the modification, the write of
\* which is not awaited.
C25_Original ==
  /\ freshQueue.pc = "new" => freshQueue.queue = <<>>
  /\ (freshQueue.pc = "loaded" /\ freshQueue.synced)
       => freshQueue.queue = messageQueue.queue

(***************************************************************************)
(* Properties of the passes of clean, stated for the last call of clean.   *)
(***************************************************************************)
\* the text the character pass of clean(message) hands on
charsDone(message, o) == cleanRepeatedChars(cleanUrls(trim(message)), o).cleaned

\* the block of n words at 0-based index i of words is followed by copies of
\* itself so that it stands times times in a row
blockRepeats(words, i, n, times, o) ==
  /\ i + n * times <= Len(words)
  /\ \A k \in 1..(n * (times - 1)) : caseOf(words[i + k + n], o) = caseOf(words[i + k], o)

\* the positions where a block of n words repeats minRepetitions times
repeatedAt(words, n, o) ==
  {i \in 0..(Len(words) - n * o.minRepetitions) :
     blockRepeats(words, i, n, o.minRepetitions, o)}

\* the phrase lengths tried that have a repeated block
repeatedLengths(words, o) ==
  {n \in 2..Min({5, Len(words) \div o.minRepetitions}) : repeatedAt(words, n, o) # {}}

\* C31: the phrase pass of clean makes at most one substitution: of the
\* phrase lengths from min(5, floor(words / minRepetitions)) down to 2 it
\* takes the longest that has a block repeated at least minRepetitions times
\* in a row, and the leftmost such block; the whole repeated block becomes
\* one occurrence of the phrase, the words before and after stay as they
\* are, and nothing else is changed; with no such block the text is unchanged.
C31_PhraseCollapsesOnce ==
  (cleaner.call.op = "clean" /\ trim(cleaner.call.message) # <<>>)
  =>
  LET o == cleaner.call.options
      text == charsDone(cleaner.call.message, o)
      words == wordsOf(text)
      r == cleanRepeatedPhrases(text, o)
  IN IF repeatedLengths(words, o) = {}
     THEN ~r.wasSpam /\ r.cleaned = text
     ELSE LET n == Max(repeatedLengths(words, o))
              i == Min(repeatedAt(words, n, o))
              times == Max({t \in o.minRepetitions..Len(words) :
                              blockRepeats(words, i, n, t, o)})
          IN /\ r.wasSpam
             /\ r.repetitionsFound = times
             /\ r.pattern = Opt(join(SubSeq(words, i + 1, i + n)))
             /\ wordsOf(r.cleaned) =
                  SubSeq(words, 1, i + n) \o SubSeq(words, i + n * times + 1, Len(words))

\* a call whose phrase pass collapsed a block that has words before it and
\* after it, and left another repeated phrase in the text
C31_Witness ==
  /\ cleaner.call.op = "clean"
  /\ LET o == cleaner.call.options
         text == charsDone(cleaner.call.message, o)
         words == wordsOf(text)
         r == cleanRepeatedPhrases(text, o)
     IN /\ r.wasSpam
        /\ Len(wordsOf(r.cleaned)) < Len(words)
        /\ wordsOf(r.cleaned)[1] = words[1]
        /\ wordsOf(r.cleaned)[Len(wordsOf(r.cleaned))] = words[Len(words)]
        /\ repeatedAt(words, Max(repeatedLengths(words, o)), o) # {0}
        /\ repeatedLengths(wordsOf(r.cleaned), o) # {}

\* the text the phrase pass of clean(message) hands on
phrasesDone(message, o) == cleanRepeatedPhrases(charsDone(message, o), o).cleaned

\* first and last position of the maximal run of equal words that holds
\* position j
runStart(words, j, o) ==
  Max({s \in 1..j : s = 1 \/ caseOf(words[s - 1], o) # caseOf(words[s], o)})

runEnd(words, j, o) ==
  Min({e \in j..Len(words) :
         e = Len(words) \/ caseOf(words[e + 1], o) # caseOf(words[e], o)})

runLength(words, j, o) == runEnd(words, j, o) - runStart(words, j, o) + 1

\* the positions the word pass keeps: every word of a run shorter than
\* minRepetitions and the first word of every other run
keptWords(words, o) ==
  {j \in 1..Len(words) :
     runLength(words, j, o) < o.minRepetitions \/ j = runStart(words, j, o)}

\* the words at the positions of K, in their order
restrictedTo(words, K) ==
  [k \in 1..Cardinality(K) |->
     words[CHOOSE j \in K : Cardinality({x \in K : x <= j}) = k]]

\* C32: the word pass of clean replaces every maximal run of equal
\* consecutive words (compared without case unless caseSensitive) that has
\* at least minRepetitions words by the first word of the run and keeps every
\* shorter run whole; the order of the words is kept and no other word is
\* removed; the pass marks spam exactly when some run qualifies and reports
\* the length of the longest one.
C32_WordRunsCollapse ==
  (cleaner.call.op = "clean" /\ trim(cleaner.call.message) # <<>>)
  =>
  LET o == cleaner.call.options
      text == phrasesDone(cleaner.call.message, o)
      words == wordsOf(text)
      r == cleanRepeatedWords(text, o)
      lengths == {runLength(words, j, o) : j \in 1..Len(words)}
      qualifying == {n \in lengths : n >= o.minRepetitions}
  IN /\ wordsOf(r.cleaned) = restrictedTo(words, keptWords(words, o))
     /\ r.wasSpam = (qualifying # {})
     /\ r.repetitionsFound = IF qualifying = {} THEN 0 ELSE Max(qualifying)

\* a call whose word pass collapsed a run that starts with a word in
\* another case than the rest of the run, and kept a run of two whole
C32_Witness ==
  /\ cleaner.call.op = "clean"
  /\ LET o == cleaner.call.options
         text == phrasesDone(cleaner.call.message, o)
         words == wordsOf(text)
     IN /\ cleanRepeatedWords(text, o).wasSpam
        /\ \E j \in 1..Len(words) :
             /\ j = runStart(words, j, o)
             /\ runLength(words, j, o) >= o.minRepetitions
             /\ words[j + 1] # words[j]
        /\ \E j \in 1..Len(words) :
             /\ runLength(words, j, o) = 2
             /\ o.minRepetitions > 2

\* the results of the three passes of clean(message), each run on the text
\* the pass before it returned
passResults(message, o) ==
  LET chars == cleanRepeatedChars(cleanUrls(trim(message)), o)
      phrases == cleanRepeatedPhrases(chars.cleaned, o)
      words == cleanRepeatedWords(phrases.cleaned, o)
  IN <<chars, phrases, words>>

\* C33: clean removes the URLs, then runs the character pass, the phrase
\* pass and the word pass, each on the text returned by the pass before it,
\* and truncates last; wasSpam is true exactly when one of the three passes
\* marked spam, repetitionsFound is the largest count of the three, and
\* pattern is that of the first pass, in this order, that has one.
C33_PassesInOrder ==
  (cleaner.call.op = "clean" /\ trim(cleaner.call.message) # <<>>)
  =>
  LET o == cleaner.call.options
      passes == passResults(cleaner.call.message, o)
      passed == passes[3].cleaned
      named == {k \in 1..3 : passes[k].pattern.val # <<>>}
      result == cleaner.call.result
  IN /\ result.cleaned =
          IF Len(passed) > o.maxLength
          THEN SubSeq(passed, 1, o.maxLength - 3) \o <<".", ".", ".">>
          ELSE passed
     /\ result.wasSpam = (\E k \in 1..3 : passes[k].wasSpam)
     /\ result.repetitionsFound = Max({passes[k].repetitionsFound : k \in 1..3})
     /\ named # {} => result.pattern = Opt(passes[Min(named)].pattern.val)

\* a call where two passes marked spam, with different patterns and counts
C33_Witness ==
  /\ cleaner.call.op = "clean"
  /\ LET passes == passResults(cleaner.call.message, cleaner.call.options)
     IN \E j, k \in 1..3 :
          /\ j < k
          /\ passes[j].wasSpam /\ passes[k].wasSpam
          /\ passes[j].pattern # passes[k].pattern
          /\ passes[j].repetitionsFound > passes[k].repetitionsFound
          /\ passes[k].cleaned # passes[j].cleaned

\* C39: for minRepetitions and maxLength of at least 3, the cleaned text of
\* clean has no run of minRepetitions or more equal consecutive words
\* (compared as the options say), the truncation included.
C39_Original ==
  (/\ cleaner.call.op = "clean"
   /\ cleaner.call.options.minRepetitions >= 3
   /\ cleaner.call.options.maxLength >= 3)
  =>
  LET words == wordsOf(cleaner.call.result.cleaned)
  IN \A j \in 1..Len(words) :
       runLength(words, j, cleaner.call.options) < cleaner.call.options.minRepetitions

\* every message with readAt set is read
C38_ReadAtOnlyWhenRead ==
  \A i \in 1..Len(messageQueue.queue) :
    messageQueue.queue[i].readAt # NoDate => messageQueue.queue[i].isRead

\* a message that is read is not unread after a call
C38_StaysReadStep ==
  \A i \in 1..Len(messageQueue.queue) :
    \A j \in 1..Len(messageQueue'.queue) :
      (messageQueue.queue[i].isRead /\ messageQueue'.queue[j].id = messageQueue.queue[i].id)
        => messageQueue'.queue[j].isRead

\* C38: in every state of the queue reached by add, getNextUnread (with
\* either argument), markAsRead, markAllAsRead and clear, a message has
\* readAt set only if it is read, and a message that is read never becomes
\* unread again.
C38_Original == [](C38_ReadAtOnlyWhenRead) /\ [][C38_StaysReadStep]_vars


(***************************************************************************)
(* Properties of the /webhook handler's choice of the user name.           *)
(***************************************************************************)
\* C34: when the payload of an event has no displayName, nickname or
\* username but has a uniqueId, the user name selected by processIaResponse
\* followed by contentTEXT is that uniqueId.
C34_Original ==
  (/\ webhook.status # "none"
   /\ ~webhook.body.nickname.def
   /\ webhook.body.uniqueId.def)
  => webhook.user = webhook.body.uniqueId

(***************************************************************************)
(* Properties of the table under the load of the constructor, of the ids   *)
(* of the filter sets and of the entries stored.                           *)
(***************************************************************************)
\* the filter set f is in the table fs with its allow entries and the deny
\* entries that have not expired at t
heldIn(fs, f, t) ==
  \E j \in 1..Len(fs) :
    /\ fs[j].id = f.id
    /\ \A k \in 1..Len(f.blackList) :
         ~isItemExpired(f.blackList[k], t) =>
           \E m \in 1..Len(fs[j].blackList) : fs[j].blackList[m] = f.blackList[k]
    /\ \A k \in 1..Len(f.whiteList) :
         \E m \in 1..Len(fs[j].whiteList) : fs[j].whiteList[m] = f.whiteList[k]

\* C35: the load started by the constructor discards nothing that explicit
\* operations produced: every filter set created and every entry added
\* before the load finished is in the table after it, whether the load
\* succeeds or fails.
C35_Original ==
  [][(loadPc = "reading" /\ loadPc' = "idle") =>
       \A i \in 1..Len(filters) : heldIn(filters', filters[i], now)]_vars

\* no two filter sets of the table have the same id
C36_UniqueIds ==
  \A i, j \in 1..Len(filters) : i # j => filters[i].id # filters[j].id

\* after deleteFilter(id) returned true, getFilter(id) finds no filter set
C36_DeleteStep ==
  (last'.op = "deleteFilter" /\ last'.ok) => findIndex(filters', last'.id) = 0

\* C36: the ids of the filter sets in the table are unique after any
\* sequence of createFilter and deleteFilter calls, and after deleteFilter(id)
\* returned true no filter set with that id is left in the table.
C36_Original == [](C36_UniqueIds) /\ [][C36_DeleteStep]_vars

\* C37: no deny or allow entry stored in the table has empty trimmed text.
C37_Original ==
  \A i \in 1..Len(filters) :
    /\ \A k \in 1..Len(filters[i].blackList) : normalizeItem(filters[i].blackList[k]) # <<>>
    /\ \A k \in 1..Len(filters[i].whiteList) : trim(filters[i].whiteList[k]) # <<>>

====
